---------------------------- MODULE Spec2Model ----------------------------
(***************************************************************************)
(* A model of the ggbc back end: the bytecode virtual machine              *)
(* (modules/ggbc-vm/src/lib.rs) and the allocators of the IR compiler      *)
(* (modules/ggbc/src/ir/alloc.rs).                                         *)
(*                                                                         *)
(* Conventions.                                                            *)
(*  - Rust indices are 0-based; a Vec is a TLA+ sequence, so element i of  *)
(*    a Vec v is v[i + 1].                                                 *)
(*  - Option<T> is a sequence of length 0 (None) or 1 (Some).              *)
(*  - A panic aborts the process: the field `panic` records its reason and *)
(*    the state the aborted call leaves behind; no operation runs after.   *)
(*  - The two 64KB arrays of Memory are kept sparsely: a function from the *)
(*    addresses that hold a nonzero byte to that byte.                     *)
(*  - A usize at or above 2^63 is written as the negative number it is in  *)
(*    two's complement (usize::MAX is -1).                                 *)
(*  - overflow_checks is the build profile: TRUE when integer overflow     *)
(*    panics (debug), FALSE when it wraps (release).                       *)
(***************************************************************************)
EXTENDS Integers, Sequences, FiniteSets, TLC

\* ------------------------------------------------------------- bounds
\* Bytes of one stack frame modelled.
FrameSize == 3
\* Deepest frame stack explored (Call is not taken beyond it).
MaxDepth == 3
\* Registers of each bank modelled.
NumRegs == 2
\* Statements of the entry routine of the call programs.
RoutineLen == 3
\* Statements of routine 1 of the call programs.
CalleeLen == 2
\* Statements of the routine of the memory programs.
MemLen == 2
\* Calls of update explored after the machine has stopped.
MaxIdle == 1
\* Calls of RegisterAlloc::alloc and free explored.
MaxRegOps == 5
\* Indices next to either end of the register pool that free is called with.
FreeSpan == 3
\* Calls of the SymbolAlloc::alloc_* entry points explored.
MaxAllocs == 2
\* Fetch-execute cycles one run may take.
MaxCycles == 200
\* Trip counts of the counting loop explored beside 42.
MaxTrips == 3
\* Statements of a routine that holds a jump.
JmpLen == 3

\* ---------------------------------------------------- program constants
\* Size of the static and of the return memory array.
MemSize == 65536
\* Number of values of a byte and of a 16-bit word.
Byte == 256
Word == 65536
\* Slots of the register allocator: the bits of RegisterAlloc.bitset.
NumSlots == 64

VARIABLES
    ir,               \* VM.ir: the program, never written by the VM
    byte_order,       \* the B: ByteOrder parameter, "BE" or "LE"
    overflow_checks,  \* the build profile
    running,          \* VM.running
    routine,          \* VM.routine
    pc,               \* VM.pc
    static_,          \* VM.memory.static_
    return_,          \* VM.memory.return_
    stack,            \* VM.stack
    reg8,             \* VM.reg8
    reg16,            \* VM.reg16
    panic,            \* "none", or the reason the process aborted
    hist,             \* the last two cycles: the state before, the statement
    idle,             \* calls of update made since the machine stopped
    cycles,           \* fetch-execute cycles run so far
    bitset,           \* RegisterAlloc.bitset, as the set of its set bits
    reg_panic,        \* "none", or the reason a RegisterAlloc call aborted
    reg_last,         \* the last RegisterAlloc call: its name, argument, result
    reg_live,         \* the indices alloc has handed out and free not taken back
    reg_ops,          \* calls of alloc and free made
    reg_misused,      \* whether some call broke the allocator's contract
    symbol_alloc,     \* the SymbolAlloc: its four tables and four cursors
    sym_panic,        \* "none", or the reason a SymbolAlloc call aborted
    sym_last,         \* the last SymbolAlloc call, and the allocator before it
    sym_idents,       \* the <<identifier, space>> allocated and not cleared
    sym_allocs,       \* calls of the alloc_* entry points made
    sym_cleared,      \* the identifiers clear_stack has removed
    fns,              \* FnAlloc.fns: the declaration bound to each name
    fn_panic,         \* "none", or the reason a FnAlloc call aborted
    fn_last,          \* the last FnAlloc call, its result and the map before
    fn_allocated      \* the declarations alloc has accepted

vmvars == <<ir, byte_order, overflow_checks, running, routine, pc, static_,
            return_, stack, reg8, reg16, panic, hist, idle, cycles>>

regvars == <<bitset, reg_panic, reg_last, reg_live, reg_ops, reg_misused>>

symvars == <<symbol_alloc, sym_panic, sym_last, sym_idents, sym_allocs, sym_cleared>>

fnvars == <<fns, fn_panic, fn_last, fn_allocated>>

vars == <<vmvars, regvars, symvars, fnvars>>

\* ------------------------------------------------------------ helpers
Last(s) == s[Len(s)]
Front(s) == SubSeq(s, 1, Len(s) - 1)
None == <<>>
Some(x) == <<x>>

\* A 64KB array of zeros with the byte at a set to v.
Store(mem, a, v) ==
    IF v = 0
      THEN [x \in (DOMAIN mem) \ {a} |-> mem[x]]
      ELSE [x \in (DOMAIN mem) \cup {a} |-> IF x = a THEN v ELSE mem[x]]
Load(mem, a) == IF a \in DOMAIN mem THEN mem[a] ELSE 0
ZeroMemory == [x \in {} |-> 0]

\* ----------------------------------------------------------- operands
Literal(v) == [k |-> "Literal", val |-> v]
Register(r) == [k |-> "Register", reg |-> r]
Pointer(space, addr) ==
    [k |-> "Pointer", base |-> [space |-> space, addr |-> addr], offset |-> None]
PointerAt(space, addr, off) ==
    [k |-> "Pointer", base |-> [space |-> space, addr |-> addr], offset |-> Some(off)]

\* ---------------------------------------------------------- the machine
\* The fields the machine writes.
TheMachine ==
    [running |-> running, routine |-> routine, pc |-> pc, static_ |-> static_,
     return_ |-> return_, stack |-> stack, reg8 |-> reg8, reg16 |-> reg16,
     panic |-> panic]

\* A VM value: those fields, with the program, byte order and build it runs.
VMOf(m) ==
    [ir |-> ir, byte_order |-> byte_order, overflow_checks |-> overflow_checks,
     running |-> m.running, routine |-> m.routine, pc |-> m.pc,
     static_ |-> m.static_, return_ |-> m.return_, stack |-> m.stack,
     reg8 |-> m.reg8, reg16 |-> m.reg16, panic |-> m.panic]

TheVM == VMOf(TheMachine)

Panic(vm, why) == [vm EXCEPT !.panic = why]

StackFrame_new == [i \in 1..FrameSize |-> 0]
Registers_new == [i \in 0..(NumRegs - 1) |-> 0]

new(ir0, order, checks) ==
    [ir |-> ir0, byte_order |-> order, overflow_checks |-> checks,
     running |-> TRUE,
     routine |-> <<>>,
     pc |-> <<0>>,
     static_ |-> ZeroMemory,
     return_ |-> ZeroMemory,
     stack |-> <<StackFrame_new>>,
     reg8 |-> Registers_new,
     reg16 |-> Registers_new,
     panic |-> "none"]

vm_pc(vm) == Last(vm.pc)
current_stack_frame(vm) == Last(vm.stack)

\* A value, or the reason computing it panicked.
Ok(v) == [panic |-> "none", val |-> v]
Err(why) == [panic |-> why, val |-> 0]

\* u16 + u16 as the build computes it.
add_u16(vm, a, b) ==
    IF a + b < Word THEN Ok(a + b)
    ELSE IF vm.overflow_checks THEN Err("overflow")
    ELSE Ok((a + b) % Word)

Registers_get(bank, r) ==
    IF r \in DOMAIN bank THEN Ok(bank[r]) ELSE Err("index")

RECURSIVE read(_, _)

\* offset.as_ref().map(|o| self.read(o)).unwrap_or(0) as u16
pointer_offset(vm, pointer) ==
    IF pointer.offset = None THEN Ok(0) ELSE read(vm, pointer.offset[1])

\* *addr + offset, or the panic of the offset's read.
offset_address(vm, addr, off) ==
    IF off.panic = "none" THEN add_u16(vm, addr, off.val) ELSE off

effective_address(vm, pointer) ==
    offset_address(vm, pointer.base.addr, pointer_offset(vm, pointer))

\* The match of read on the pointer's space, ea being the effective address.
read_space(vm, sp, ea) ==
    IF ea.panic # "none" THEN ea
    ELSE CASE sp \in {"Absolute", "Static"} -> Ok(Load(vm.static_, ea.val))
           [] sp = "Return" -> Ok(Load(vm.return_, ea.val))
           [] sp = "Const" ->
                IF ea.val < Len(vm.ir.const_)
                  THEN Ok(vm.ir.const_[ea.val + 1])
                  ELSE Err("index")
           [] sp = "Stack" ->
                IF ea.val < FrameSize
                  THEN Ok(current_stack_frame(vm)[ea.val + 1])
                  ELSE Err("index")

read(vm, source) ==
    CASE source.k = "Literal" -> Ok(source.val)
      [] source.k = "Register" -> Registers_get(vm.reg8, source.reg)
      [] source.k = "Pointer" ->
            read_space(vm, source.base.space, effective_address(vm, source))

\* The match of ld with the static and the return space sharing one array.
ld_space_aliases_return(vm, sp, ea, data) ==
    IF ea.panic # "none" THEN Panic(vm, ea.panic)
    ELSE CASE sp \in {"Absolute", "Static", "Return"} ->
                [vm EXCEPT !.static_ = Store(@, ea.val, data),
                           !.return_ = Store(@, ea.val, data)]
           [] sp = "Stack" ->
                IF ea.val < FrameSize
                  THEN [vm EXCEPT !.stack[Len(vm.stack)][ea.val + 1] = data]
                  ELSE Panic(vm, "index")

\* The match of ld with absolute addresses kept in an array of their own.
ld_space_absolute_apart(vm, sp, ea, data) ==
    IF ea.panic # "none" THEN Panic(vm, ea.panic)
    ELSE CASE sp = "Static" ->
                [vm EXCEPT !.static_ = Store(@, ea.val, data)]
           [] sp \in {"Absolute", "Return"} ->
                [vm EXCEPT !.return_ = Store(@, ea.val, data)]
           [] sp = "Stack" ->
                IF ea.val < FrameSize
                  THEN [vm EXCEPT !.stack[Len(vm.stack)][ea.val + 1] = data]
                  ELSE Panic(vm, "index")

\* The match of ld on the pointer's space, ea being the effective address.
ld_space(vm, sp, ea, data) ==
    IF ea.panic # "none" THEN Panic(vm, ea.panic)
    ELSE CASE sp \in {"Absolute", "Static"} ->
                [vm EXCEPT !.static_ = Store(@, ea.val, data)]
           [] sp = "Return" ->
                [vm EXCEPT !.return_ = Store(@, ea.val, data)]
           [] sp = "Stack" ->
                IF ea.val < FrameSize
                  THEN [vm EXCEPT !.stack[Len(vm.stack)][ea.val + 1] = data]
                  ELSE Panic(vm, "index")

\* ld on a pointer, with a constant pool base written as a static one.
ld_pointer_writes_rom(vm, base, off, data) ==
    IF off.panic # "none" THEN Panic(vm, off.panic)
    ELSE ld_space(vm, IF base.space = "Const" THEN "Static" ELSE base.space,
                  add_u16(vm, base.addr, off.val), data)

\* ld on a pointer once its offset is read: a constant pool base panics
\* before the address is added up.
ld_pointer(vm, base, off, data) ==
    IF off.panic # "none" THEN Panic(vm, off.panic)
    ELSE IF base.space = "Const" THEN Panic(vm, "rom")
    ELSE ld_space(vm, base.space, add_u16(vm, base.addr, off.val), data)

\* ld once its source is read.
ld_data(vm, data, destination) ==
    IF data.panic # "none" THEN Panic(vm, data.panic)
    ELSE IF destination.k = "Register"
      THEN IF destination.reg \in DOMAIN vm.reg8
             THEN [vm EXCEPT !.reg8[destination.reg] = data.val]
             ELSE Panic(vm, "index")
    ELSE ld_pointer(vm, destination.base, pointer_offset(vm, destination), data.val)

ld(vm, source, destination) == ld_data(vm, read(vm, source), destination)

\* B::read_u16 and B::write_u16 on the two bytes at the head of a slice.
ByteOrder_read_u16(order, b0, b1) ==
    IF order = "BE" THEN b0 * Byte + b1 ELSE b1 * Byte + b0
ByteOrder_first(order, data) ==
    IF order = "BE" THEN data \div Byte ELSE data % Byte
ByteOrder_second(order, data) ==
    IF order = "BE" THEN data % Byte ELSE data \div Byte

Registers_get16(bank, r) ==
    IF r \in DOMAIN bank THEN Ok(bank[r]) ELSE Err("index")

\* B::read_u16(&slice[a..]) of a slice of len bytes.
read_slice(vm, len, a, b0, b1) ==
    IF a + 1 < len THEN Ok(ByteOrder_read_u16(vm.byte_order, b0, b1))
    ELSE Err("index")

\* The byte at index i of a slice, for the reads that a bounds check guards.
At(slice, i) == IF i + 1 \in DOMAIN slice THEN slice[i + 1] ELSE 0

\* The match of read_u16 on the pointer's space.
read_u16_space(vm, sp, ea) ==
    IF ea.panic # "none" THEN ea
    ELSE CASE sp \in {"Absolute", "Static"} ->
                read_slice(vm, MemSize, ea.val,
                           Load(vm.static_, ea.val), Load(vm.static_, ea.val + 1))
           [] sp = "Return" ->
                read_slice(vm, MemSize, ea.val,
                           Load(vm.return_, ea.val), Load(vm.return_, ea.val + 1))
           [] sp = "Const" ->
                read_slice(vm, Len(vm.ir.const_), ea.val,
                           At(vm.ir.const_, ea.val), At(vm.ir.const_, ea.val + 1))
           [] sp = "Stack" ->
                read_slice(vm, FrameSize, ea.val,
                           At(current_stack_frame(vm), ea.val),
                           At(current_stack_frame(vm), ea.val + 1))

read_u16(vm, source) ==
    CASE source.k = "Literal" -> Ok(source.val)
      [] source.k = "Register" -> Registers_get16(vm.reg16, source.reg)
      [] source.k = "Pointer" ->
            read_u16_space(vm, source.base.space, effective_address(vm, source))

\* The match of ld16 on the pointer's space: B::write_u16(&mut slice[a..], data)
\* with b0 and b1 the bytes of data in the machine's order.
ld16_space(vm, sp, ea, b0, b1) ==
    IF ea.panic # "none" THEN Panic(vm, ea.panic)
    ELSE CASE sp \in {"Absolute", "Static"} ->
                IF ea.val + 1 < MemSize
                  THEN [vm EXCEPT !.static_ = Store(Store(@, ea.val, b0), ea.val + 1, b1)]
                  ELSE Panic(vm, "index")
           [] sp = "Return" ->
                IF ea.val + 1 < MemSize
                  THEN [vm EXCEPT !.return_ = Store(Store(@, ea.val, b0), ea.val + 1, b1)]
                  ELSE Panic(vm, "index")
           [] sp = "Stack" ->
                IF ea.val + 1 < FrameSize
                  THEN [vm EXCEPT !.stack[Len(vm.stack)][ea.val + 1] = b0,
                                  !.stack[Len(vm.stack)][ea.val + 2] = b1]
                  ELSE Panic(vm, "index")

\* ld16 storing the low byte first, whatever the machine's byte order.
ld16_pointer_low_first(vm, base, off, data) ==
    IF off.panic # "none" THEN Panic(vm, off.panic)
    ELSE IF base.space = "Const" THEN Panic(vm, "rom")
    ELSE ld16_space(vm, base.space, add_u16(vm, base.addr, off.val),
                    data % Byte, data \div Byte)

\* ld16 on a pointer once its offset is read.
ld16_pointer(vm, base, off, data) ==
    IF off.panic # "none" THEN Panic(vm, off.panic)
    ELSE IF base.space = "Const" THEN Panic(vm, "rom")
    ELSE ld16_space(vm, base.space, add_u16(vm, base.addr, off.val),
                    ByteOrder_first(vm.byte_order, data),
                    ByteOrder_second(vm.byte_order, data))

\* ld16 once its source is read.
ld16_data(vm, data, destination) ==
    IF data.panic # "none" THEN Panic(vm, data.panic)
    ELSE IF destination.k = "Register"
      THEN IF destination.reg \in DOMAIN vm.reg16
             THEN [vm EXCEPT !.reg16[destination.reg] = data.val]
             ELSE Panic(vm, "index")
    ELSE ld16_pointer(vm, destination.base, pointer_offset(vm, destination), data.val)

ld16(vm, source, destination) == ld16_data(vm, read_u16(vm, source), destination)

\* Bitwise operators on naturals.
RECURSIVE BitAnd(_, _)
BitAnd(a, b) ==
    IF a = 0 \/ b = 0 THEN 0
    ELSE (a % 2) * (b % 2) + 2 * BitAnd(a \div 2, b \div 2)
RECURSIVE BitOr(_, _)
BitOr(a, b) ==
    IF a = 0 THEN b ELSE IF b = 0 THEN a
    ELSE (IF a % 2 = 1 \/ b % 2 = 1 THEN 1 ELSE 0) + 2 * BitOr(a \div 2, b \div 2)
RECURSIVE BitXor(_, _)
BitXor(a, b) ==
    IF a = 0 THEN b ELSE IF b = 0 THEN a
    ELSE (IF a % 2 # b % 2 THEN 1 ELSE 0) + 2 * BitXor(a \div 2, b \div 2)
RECURSIVE Pow2(_)
Pow2(n) == IF n = 0 THEN 1 ELSE 2 * Pow2(n - 1)

\* The 8-bit binary statements: read left, read right, write f(left, right).
\* f yields Ok(value) or Err(reason).
ld_result(vm, v, destination) ==
    IF v.panic # "none" THEN Panic(vm, v.panic)
    ELSE ld(vm, Literal(v.val), destination)

Binary8_on(vm, l, r, destination, f(_, _)) ==
    IF l.panic # "none" THEN Panic(vm, l.panic)
    ELSE IF r.panic # "none" THEN Panic(vm, r.panic)
    ELSE ld_result(vm, f(l.val, r.val), destination)

Binary8(vm, left, right, destination, f(_, _)) ==
    Binary8_on(vm, read(vm, left), read(vm, right), destination, f)

Binary16_on(vm, l, r, destination, f(_, _)) ==
    IF l.panic # "none" THEN Panic(vm, l.panic)
    ELSE IF r.panic # "none" THEN Panic(vm, r.panic)
    ELSE ld16(vm, Literal(f(l.val, r.val)), destination)

Binary16(vm, left, right, destination, f(_, _)) ==
    Binary16_on(vm, read_u16(vm, left), read_u16(vm, right), destination, f)

and(vm, left, right, destination) ==
    LET f(l, r) == Ok(BitAnd(l, r)) IN Binary8(vm, left, right, destination, f)
or(vm, left, right, destination) ==
    LET f(l, r) == Ok(BitOr(l, r)) IN Binary8(vm, left, right, destination, f)
xor(vm, left, right, destination) ==
    LET f(l, r) == Ok(BitXor(l, r)) IN Binary8(vm, left, right, destination, f)
mul(vm, left, right, destination) ==
    LET f(l, r) == IF l * r < Byte THEN Ok(l * r)
                   ELSE IF vm.overflow_checks THEN Err("overflow")
                   ELSE Ok((l * r) % Byte)
    IN Binary8(vm, left, right, destination, f)
\* div answering a zero divisor with the quotient 0.
div_by_zero_is_zero(vm, left, right, destination) ==
    LET f(l, r) == IF r = 0 THEN Ok(0) ELSE Ok(l \div r)
    IN Binary8(vm, left, right, destination, f)
div(vm, left, right, destination) ==
    LET f(l, r) == IF r = 0 THEN Err("divide by zero") ELSE Ok(l \div r)
    IN Binary8(vm, left, right, destination, f)
rem(vm, left, right, destination) ==
    LET f(l, r) == IF r = 0 THEN Err("divide by zero") ELSE Ok(l % r)
    IN Binary8(vm, left, right, destination, f)
left_shift(vm, left, right, destination) ==
    LET f(l, r) == IF r < 8 THEN Ok((l * Pow2(r)) % Byte)
                   ELSE IF vm.overflow_checks THEN Err("overflow")
                   ELSE Ok((l * Pow2(r % 8)) % Byte)
    IN Binary8(vm, left, right, destination, f)
right_shift(vm, left, right, destination) ==
    LET f(l, r) == IF r < 8 THEN Ok(l \div Pow2(r))
                   ELSE IF vm.overflow_checks THEN Err("overflow")
                   ELSE Ok(l \div Pow2(r % 8))
    IN Binary8(vm, left, right, destination, f)
eq(vm, left, right, destination) ==
    LET f(l, r) == Ok(IF l = r THEN 1 ELSE 0) IN Binary8(vm, left, right, destination, f)
not_eq(vm, left, right, destination) ==
    LET f(l, r) == Ok(IF l # r THEN 1 ELSE 0) IN Binary8(vm, left, right, destination, f)
greater(vm, left, right, destination) ==
    LET f(l, r) == Ok(IF l > r THEN 1 ELSE 0) IN Binary8(vm, left, right, destination, f)
greater_eq(vm, left, right, destination) ==
    LET f(l, r) == Ok(IF l >= r THEN 1 ELSE 0) IN Binary8(vm, left, right, destination, f)
less(vm, left, right, destination) ==
    LET f(l, r) == Ok(IF l < r THEN 1 ELSE 0) IN Binary8(vm, left, right, destination, f)
less_eq(vm, left, right, destination) ==
    LET f(l, r) == Ok(IF l <= r THEN 1 ELSE 0) IN Binary8(vm, left, right, destination, f)
\* add with the overflow check of the build in place of wrapping_add.
add_checked(vm, left, right, destination) ==
    LET f(l, r) == IF l + r < Byte THEN Ok(l + r)
                   ELSE IF vm.overflow_checks THEN Err("overflow")
                   ELSE Ok((l + r) % Byte)
    IN Binary8(vm, left, right, destination, f)

add(vm, left, right, destination) ==
    LET f(l, r) == Ok((l + r) % Byte) IN Binary8(vm, left, right, destination, f)
sub(vm, left, right, destination) ==
    LET f(l, r) == Ok((l - r + Byte) % Byte) IN Binary8(vm, left, right, destination, f)

and16(vm, left, right, destination) ==
    LET f(l, r) == BitAnd(l, r) IN Binary16(vm, left, right, destination, f)
or16(vm, left, right, destination) ==
    LET f(l, r) == BitOr(l, r) IN Binary16(vm, left, right, destination, f)
xor16(vm, left, right, destination) ==
    LET f(l, r) == BitXor(l, r) IN Binary16(vm, left, right, destination, f)
add16(vm, left, right, destination) ==
    LET f(l, r) == (l + r) % Word IN Binary16(vm, left, right, destination, f)
sub16(vm, left, right, destination) ==
    LET f(l, r) == (l - r + Word) % Word IN Binary16(vm, left, right, destination, f)

inc(vm, source, destination) ==
    LET d == read(vm, source) IN
    IF d.panic # "none" THEN Panic(vm, d.panic)
    ELSE ld(vm, Literal((d.val + 1) % Byte), destination)
dec(vm, source, destination) ==
    LET d == read(vm, source) IN
    IF d.panic # "none" THEN Panic(vm, d.panic)
    ELSE ld(vm, Literal((d.val - 1 + Byte) % Byte), destination)
inc16(vm, source, destination) ==
    LET d == read_u16(vm, source) IN
    IF d.panic # "none" THEN Panic(vm, d.panic)
    ELSE ld16(vm, Literal((d.val + 1) % Word), destination)
dec16(vm, source, destination) ==
    LET d == read_u16(vm, source) IN
    IF d.panic # "none" THEN Panic(vm, d.panic)
    ELSE ld16(vm, Literal((d.val - 1 + Word) % Word), destination)

\* Location::Relative(rel): the top program counter, as isize, plus rel.
jmp(vm, location) == [vm EXCEPT !.pc[Len(vm.pc)] = @ + location]

\* cmp jumping whatever the byte read is.
cmp_always(vm, source, location) ==
    LET d == read(vm, source) IN
    IF d.panic # "none" THEN Panic(vm, d.panic) ELSE jmp(vm, location)

cmp(vm, source, location) ==
    LET d == read(vm, source) IN
    IF d.panic # "none" THEN Panic(vm, d.panic)
    ELSE IF d.val # 0 THEN jmp(vm, location) ELSE vm

\* cmp_not taking the jump when the byte is not zero.
cmp_not_inverted(vm, source, location) ==
    LET d == read(vm, source) IN
    IF d.panic # "none" THEN Panic(vm, d.panic)
    ELSE IF d.val # 0 THEN jmp(vm, location) ELSE vm

cmp_not(vm, source, location) ==
    LET d == read(vm, source) IN
    IF d.panic # "none" THEN Panic(vm, d.panic)
    ELSE IF d.val = 0 THEN jmp(vm, location) ELSE vm

\* call copying the head of the caller's frame, whatever range.start is.
call_copies_from_zero(vm, r, range) ==
    LET pushed == [vm EXCEPT !.routine = Append(@, r), !.pc = Append(@, 0)]
        top_frame == Last(vm.stack)
        n == range.end - range.start
        new_frame == [i \in 1..FrameSize |->
                        IF i <= n THEN top_frame[i] ELSE StackFrame_new[i]]
    IN  IF range.start > range.end \/ range.end > FrameSize
          THEN Panic(pushed, "index")
          ELSE [pushed EXCEPT !.stack = Append(@, new_frame)]

call(vm, r, range) ==
    LET pushed == [vm EXCEPT !.routine = Append(@, r), !.pc = Append(@, 0)]
        top_frame == Last(vm.stack)
        n == range.end - range.start
        new_frame == [i \in 1..FrameSize |->
                        IF i <= n THEN top_frame[range.start + i]
                        ELSE StackFrame_new[i]]
    IN  IF range.start > range.end \/ range.end > FrameSize
          THEN Panic(pushed, "index")
          ELSE [pushed EXCEPT !.stack = Append(@, new_frame)]

\* ret leaving the callee's program counter on the stack.
ret_keeps_pc(vm) ==
    IF vm.routine = <<>> THEN Panic(vm, "unwrap")
    ELSE [vm EXCEPT !.routine = Front(@), !.stack = Front(@)]

\* ret returning quietly when no call is outstanding.
ret_ignores_underflow(vm) ==
    IF vm.routine = <<>> THEN vm
    ELSE [vm EXCEPT !.routine = Front(@), !.pc = Front(@), !.stack = Front(@)]

\* ret dropping the return space with the frame.
ret_clears_return(vm) ==
    IF vm.routine = <<>> THEN Panic(vm, "unwrap")
    ELSE [vm EXCEPT !.routine = Front(@), !.pc = Front(@), !.stack = Front(@),
                    !.return_ = ZeroMemory]

ret(vm) ==
    IF vm.routine = <<>> THEN Panic(vm, "unwrap")
    ELSE [vm EXCEPT !.routine = Front(@), !.pc = Front(@), !.stack = Front(@)]

execute(vm, statement) ==
    LET op == statement.op
        st == statement
    IN
    CASE op = "Nop" -> vm
      [] op = "Stop" -> [vm EXCEPT !.running = FALSE]
      [] op = "Ld" -> ld(vm, st.source, st.destination)
      [] op = "LdW" -> ld16(vm, st.source, st.destination)
      [] op = "Inc" -> inc(vm, st.source, st.destination)
      [] op = "Dec" -> dec(vm, st.source, st.destination)
      [] op = "IncW" -> inc16(vm, st.source, st.destination)
      [] op = "DecW" -> dec16(vm, st.source, st.destination)
      [] op = "Add" -> add(vm, st.left, st.right, st.destination)
      [] op = "Sub" -> sub(vm, st.left, st.right, st.destination)
      [] op = "And" -> and(vm, st.left, st.right, st.destination)
      [] op = "Or" -> or(vm, st.left, st.right, st.destination)
      [] op = "Xor" -> xor(vm, st.left, st.right, st.destination)
      [] op = "Mul" -> mul(vm, st.left, st.right, st.destination)
      [] op = "Div" -> div(vm, st.left, st.right, st.destination)
      [] op = "Rem" -> rem(vm, st.left, st.right, st.destination)
      [] op \in {"MulW", "DivW", "RemW", "LeftShiftW", "RightShiftW"} ->
            Panic(vm, "not yet implemented")
      [] op = "LeftShift" -> left_shift(vm, st.left, st.right, st.destination)
      [] op = "RightShift" -> right_shift(vm, st.left, st.right, st.destination)
      [] op = "Eq" -> eq(vm, st.left, st.right, st.destination)
      [] op = "NotEq" -> not_eq(vm, st.left, st.right, st.destination)
      [] op = "Greater" -> greater(vm, st.left, st.right, st.destination)
      [] op = "GreaterEq" -> greater_eq(vm, st.left, st.right, st.destination)
      [] op = "Less" -> less(vm, st.left, st.right, st.destination)
      [] op = "LessEq" -> less_eq(vm, st.left, st.right, st.destination)
      [] op = "AddW" -> add16(vm, st.left, st.right, st.destination)
      [] op = "SubW" -> sub16(vm, st.left, st.right, st.destination)
      [] op = "AndW" -> and16(vm, st.left, st.right, st.destination)
      [] op = "OrW" -> or16(vm, st.left, st.right, st.destination)
      [] op = "XorW" -> xor16(vm, st.left, st.right, st.destination)
      [] op = "Jmp" -> jmp(vm, st.location)
      [] op = "JmpCmp" -> cmp(vm, st.source, st.location)
      [] op = "JmpCmpNot" -> cmp_not(vm, st.source, st.location)
      [] op = "Call" -> call(vm, st.routine, st.range)
      [] op = "Ret" -> ret(vm)
      [] OTHER -> Panic(vm, "not implemented")

\* The statement update fetches, or the reason the fetch panicked.
NoStatement == [op |-> "none"]
fetch(vm) ==
    LET n == Len(vm.ir.routines)
        i == IF vm.routine = <<>> THEN vm.ir.main ELSE Last(vm.routine)
    IN  IF vm.ir.main >= n \/ i >= n THEN Err("index")
        ELSE IF vm_pc(vm) < 0 \/ vm_pc(vm) >= Len(vm.ir.routines[i + 1])
          THEN Err("index")
        ELSE Ok(vm.ir.routines[i + 1][vm_pc(vm) + 1])

\* *self.pc.last_mut().unwrap() += 1
pc_increment(vm) ==
    IF vm_pc(vm) = -1
      THEN IF vm.overflow_checks THEN Panic(vm, "overflow")
           ELSE [vm EXCEPT !.pc[Len(vm.pc)] = 0]
      ELSE [vm EXCEPT !.pc[Len(vm.pc)] = @ + 1]

\* The increment that follows execute, unless execute panicked.
executed(e) == IF e.panic # "none" THEN e ELSE pc_increment(e)

\* The body of update, f being the statement fetched.
update_statement(vm, f) ==
    IF f.panic # "none" THEN Panic(vm, f.panic)
    ELSE executed(execute(vm, f.val))

\* update without the test of the running flag.
update_ignores_running(vm) == update_statement(vm, fetch(vm))

update(vm) == IF vm.running THEN update_statement(vm, fetch(vm)) ELSE vm

\* ------------------------------------------------------- RegisterAlloc
\* The bit 1 << (index as u64) of a u64, as the position of that bit.
RegisterAlloc_bit(index, checks) ==
    IF index < NumSlots THEN Ok(index)
    ELSE IF checks THEN Err("overflow")
    ELSE Ok(index % NumSlots)

RegisterAlloc_len(bits) == Cardinality(bits)

RegisterAlloc_get(bits, index, checks) ==
    LET bit == RegisterAlloc_bit(index, checks) IN
    IF bit.panic # "none" THEN bit ELSE Ok(bit.val \in bits)

\* The bitset after set(index, value); the old value set returns is unused.
RegisterAlloc_set(bits, index, value, checks) ==
    LET bit == RegisterAlloc_bit(index, checks) IN
    IF bit.panic # "none" THEN bit
    ELSE IF value THEN Ok(bits \cup {bit.val}) ELSE Ok(bits \ {bit.val})

\* min counting the allocated registers instead of looking for a clear bit.
RegisterAlloc_min_counts(bits, checks) ==
    IF Cardinality(bits) < NumSlots THEN Ok(Cardinality(bits)) ELSE Err("unwrap")

\* min falling back to slot 0 when no bit is clear.
RegisterAlloc_min_or_zero(bits, checks) ==
    LET clear == {b \in 0..(NumSlots - 1) : ~RegisterAlloc_get(bits, b, checks).val} IN
    IF clear = {} THEN Ok(0)
    ELSE Ok(CHOOSE b \in clear : \A c \in clear : b <= c)

RegisterAlloc_min(bits, checks) ==
    LET clear == {b \in 0..(NumSlots - 1) : ~RegisterAlloc_get(bits, b, checks).val} IN
    IF clear = {} THEN Err("unwrap")
    ELSE Ok(CHOOSE b \in clear : \A c \in clear : b <= c)

\* alloc and free yield the bitset they leave, the value returned and the
\* panic that aborted them.
RegisterAlloc_alloc(bits, checks) ==
    LET min == RegisterAlloc_min(bits, checks) IN
    IF min.panic # "none" THEN [bitset |-> bits, val |-> 0, panic |-> min.panic]
    ELSE LET set == RegisterAlloc_set(bits, min.val, TRUE, checks) IN
         IF set.panic # "none" THEN [bitset |-> bits, val |-> 0, panic |-> set.panic]
         ELSE [bitset |-> set.val, val |-> min.val, panic |-> "none"]

RegisterAlloc_free(bits, index, checks) ==
    LET get == RegisterAlloc_get(bits, index, checks) IN
    IF get.panic # "none" THEN [bitset |-> bits, val |-> 0, panic |-> get.panic]
    ELSE IF ~get.val THEN [bitset |-> bits, val |-> 0, panic |-> "assert"]
    ELSE LET set == RegisterAlloc_set(bits, index, FALSE, checks) IN
         IF set.panic # "none" THEN [bitset |-> bits, val |-> 0, panic |-> set.panic]
         ELSE [bitset |-> set.val, val |-> 0, panic |-> "none"]

\* The allocator starts empty (Default), or as 62 calls of alloc leave it.
RegStartStates == { 0..(k - 1) : k \in {0, NumSlots - 2} }

\* The indices free is called with: those next to either end of the pool, and
\* the first index past it.
FreeIndices == 0..(FreeSpan - 1) \cup (NumSlots - FreeSpan)..NumSlots

InitReg ==
    /\ bitset \in RegStartStates
    /\ reg_panic = "none"
    /\ reg_last = [op |-> "new", arg |-> 0, val |-> 0, before |-> bitset,
                   live |-> bitset]
    /\ reg_live = bitset
    /\ reg_ops = 0
    /\ reg_misused = FALSE

Alloc ==
    /\ reg_panic = "none"
    /\ reg_ops < MaxRegOps
    /\ LET r == RegisterAlloc_alloc(bitset, overflow_checks) IN
         /\ bitset' = r.bitset
         /\ reg_panic' = r.panic
         /\ reg_last' = [op |-> "alloc", arg |-> 0, val |-> r.val, before |-> bitset,
                         live |-> reg_live]
         /\ reg_live' = IF r.panic = "none" THEN reg_live \cup {r.val} ELSE reg_live
    /\ reg_misused' = (reg_misused \/ Cardinality(reg_live) >= NumSlots)
    /\ reg_ops' = reg_ops + 1
    /\ UNCHANGED <<vmvars, symvars, fnvars>>

Free(index) ==
    /\ reg_panic = "none"
    /\ reg_ops < MaxRegOps
    /\ LET r == RegisterAlloc_free(bitset, index, overflow_checks) IN
         /\ bitset' = r.bitset
         /\ reg_panic' = r.panic
         /\ reg_last' = [op |-> "free", arg |-> index, val |-> 0, before |-> bitset,
                         live |-> reg_live]
         /\ reg_live' = IF r.panic = "none" THEN reg_live \ {index} ELSE reg_live
    /\ reg_misused' = (reg_misused \/ index \notin reg_live)
    /\ reg_ops' = reg_ops + 1
    /\ UNCHANGED <<vmvars, symvars, fnvars>>

NextReg == Alloc \/ \E index \in FreeIndices : Free(index)

\* --------------------------------------------------------- SymbolAlloc
\* Types and fields of the syntax tree. An array here is an array of u8.
U8 == [t |-> "U8"]
Array(len) == [t |-> "Array", len |-> len]
Struct(fields) == [t |-> "Struct", fields |-> fields]
Union(fields) == [t |-> "Union", fields |-> fields]
Field(ident, type_) == [ident |-> ident, type_ |-> type_]

Max(a, b) == IF a >= b THEN a ELSE b

\* utils::size_of: a leaf's bytes, the sum of a struct's fields, the largest
\* of a union's.
RECURSIVE size_of(_)
RECURSIVE size_of_fields(_, _)
size_of_fields(fields, union) ==
    IF fields = <<>> THEN 0
    ELSE IF union
      THEN Max(size_of(Head(fields).type_), size_of_fields(Tail(fields), union))
      ELSE size_of(Head(fields).type_) + size_of_fields(Tail(fields), union)
size_of(type_) ==
    CASE type_.t \in {"U8", "I8"} -> 1
      [] type_.t = "Array" -> type_.len
      [] type_.t = "Struct" -> size_of_fields(type_.fields, FALSE)
      [] type_.t = "Union" -> size_of_fields(type_.fields, TRUE)

Symbol(name, offset, size, type_, space) ==
    [name |-> name, offset |-> offset, size |-> size, type_ |-> type_,
     space |-> space]

SymbolAlloc_default ==
    [absolute_symbols |-> <<>>, const_symbols |-> <<>>,
     static_symbols |-> <<>>, stack_symbols |-> <<>>,
     absolute_symbols_alloc |-> 0, const_symbols_alloc |-> 0,
     static_symbols_alloc |-> 0, stack_symbols_alloc |-> 0]

\* u16 += u16 as the build computes it.
add_assign_u16(a, b, checks) ==
    IF a + b < Word THEN Ok(a + b)
    ELSE IF checks THEN Err("overflow")
    ELSE Ok((a + b) % Word)

\* compute_all_symbols yields the size it returns, the table it leaves and the
\* panic that aborted it.
Laid(size, symbols) == [size |-> size, symbols |-> symbols, panic |-> "none"]
Aborted(symbols, why) == [size |-> 0, symbols |-> symbols, panic |-> why]

RECURSIVE compute_all_symbols(_, _, _, _, _, _)
RECURSIVE struct_fields(_, _, _, _, _, _)
RECURSIVE union_fields(_, _, _, _, _, _)

\* The loop of the Struct branch: each field at the running offset.
struct_fields(name, offset, fields, space, symbols, checks) ==
    IF fields = <<>> THEN Laid(0, symbols)
    ELSE LET f == compute_all_symbols(name, offset, Head(fields), space, symbols, checks) IN
         IF f.panic # "none" THEN f
         ELSE LET next == add_assign_u16(offset, f.size, checks) IN
              IF next.panic # "none" THEN Aborted(f.symbols, next.panic)
              ELSE struct_fields(name, next.val, Tail(fields), space, f.symbols, checks)

\* The loop of the Union branch: each field at the same offset.
union_fields(name, offset, fields, space, symbols, checks) ==
    IF fields = <<>> THEN Laid(0, symbols)
    ELSE LET f == compute_all_symbols(name, offset, Head(fields), space, symbols, checks) IN
         IF f.panic # "none" THEN f
         ELSE union_fields(name, offset, Tail(fields), space, f.symbols, checks)

\* compute_all_symbols laying a struct's fields over one another.
compute_all_symbols_struct_overlaps(prefix, offset, field, space, symbols, checks) ==
    LET name == IF prefix = "" THEN field.ident ELSE prefix \o "::" \o field.ident
        size == size_of(field.type_)
        t == field.type_.t
    IN  CASE t \in {"U8", "I8", "Array", "Pointer", "Fn"} ->
               Laid(size, Append(symbols, Symbol(name, offset, size, field.type_, space)))
          [] t \in {"Struct", "Union"} ->
               LET r == union_fields(name, offset, field.type_.fields, space, symbols, checks)
               IN  IF r.panic # "none" THEN r ELSE Laid(size, r.symbols)
          [] OTHER -> Aborted(symbols, "unreachable")

\* compute_all_symbols laying a union's fields one after another.
compute_all_symbols_union_advances(prefix, offset, field, space, symbols, checks) ==
    LET name == IF prefix = "" THEN field.ident ELSE prefix \o "::" \o field.ident
        size == size_of(field.type_)
        t == field.type_.t
    IN  CASE t \in {"U8", "I8", "Array", "Pointer", "Fn"} ->
               Laid(size, Append(symbols, Symbol(name, offset, size, field.type_, space)))
          [] t \in {"Struct", "Union"} ->
               LET r == struct_fields(name, offset, field.type_.fields, space, symbols, checks)
               IN  IF r.panic # "none" THEN r ELSE Laid(size, r.symbols)
          [] OTHER -> Aborted(symbols, "unreachable")

compute_all_symbols(prefix, offset, field, space, symbols, checks) ==
    LET name == IF prefix = "" THEN field.ident ELSE prefix \o "::" \o field.ident
        size == size_of(field.type_)
        t == field.type_.t
    IN  CASE t \in {"U8", "I8", "Array", "Pointer", "Fn"} ->
               Laid(size, Append(symbols, Symbol(name, offset, size, field.type_, space)))
          [] t = "Struct" ->
               LET r == struct_fields(name, offset, field.type_.fields, space, symbols, checks)
               IN  IF r.panic # "none" THEN r ELSE Laid(size, r.symbols)
          [] t = "Union" ->
               LET r == union_fields(name, offset, field.type_.fields, space, symbols, checks)
               IN  IF r.panic # "none" THEN r ELSE Laid(size, r.symbols)
          [] OTHER -> Aborted(symbols, "unreachable")

\* symbols.iter().find(|s| &s.name == ident.as_str()).is_some()
SymbolAlloc__is_undefined(ident, symbols) ==
    \E i \in 1..Len(symbols) : symbols[i].name = ident

SymbolAlloc_is_undefined(sa, ident) ==
    ~(\/ SymbolAlloc__is_undefined(ident, sa.absolute_symbols)
      \/ SymbolAlloc__is_undefined(ident, sa.static_symbols)
      \/ SymbolAlloc__is_undefined(ident, sa.const_symbols)
      \/ SymbolAlloc__is_undefined(ident, sa.stack_symbols))

\* The entry points yield the allocator they leave, the value returned and the
\* panic that aborted them.
Done(sa, val) == [alloc |-> sa, ret |-> val, panic |-> "none"]
Failed(sa, why) == [alloc |-> sa, ret |-> 0, panic |-> why]

\* clear_stack dropping the symbols and keeping the cursor.
clear_stack_keeps_cursor(sa) == Done([sa EXCEPT !.stack_symbols = <<>>], 0)

clear_stack(sa) ==
    Done([sa EXCEPT !.stack_symbols = <<>>, !.stack_symbols_alloc = 0], 0)

alloc_const(sa, field, checks) ==
    IF ~SymbolAlloc_is_undefined(sa, field.ident) THEN Failed(sa, "assert")
    ELSE LET r == compute_all_symbols("", sa.const_symbols_alloc, field, "Const",
                                      sa.const_symbols, checks)
             laid == [sa EXCEPT !.const_symbols = r.symbols]
             cursor == add_assign_u16(sa.const_symbols_alloc, r.size, checks)
         IN  IF r.panic # "none" THEN Failed(laid, r.panic)
             ELSE IF cursor.panic # "none" THEN Failed(laid, cursor.panic)
             ELSE Done([laid EXCEPT !.const_symbols_alloc = cursor.val], 0)

alloc_static(sa, field, checks) ==
    IF ~SymbolAlloc_is_undefined(sa, field.ident) THEN Failed(sa, "assert")
    ELSE LET r == compute_all_symbols("", sa.static_symbols_alloc, field, "Static",
                                      sa.static_symbols, checks)
             laid == [sa EXCEPT !.static_symbols = r.symbols]
             cursor == add_assign_u16(sa.static_symbols_alloc, r.size, checks)
         IN  IF r.panic # "none" THEN Failed(laid, r.panic)
             ELSE IF cursor.panic # "none" THEN Failed(laid, cursor.panic)
             ELSE Done([laid EXCEPT !.static_symbols_alloc = cursor.val], 0)

alloc_absolute(sa, field, offset, checks) ==
    IF ~SymbolAlloc_is_undefined(sa, field.ident) THEN Failed(sa, "assert")
    ELSE LET r == compute_all_symbols("", offset, field, "Absolute",
                                      sa.absolute_symbols, checks)
             laid == [sa EXCEPT !.absolute_symbols = r.symbols]
         IN  IF r.panic # "none" THEN Failed(laid, r.panic)
             ELSE Done(laid, 0)

alloc_stack_field(sa, field, checks) ==
    IF ~SymbolAlloc_is_undefined(sa, field.ident) THEN Failed(sa, "assert")
    ELSE LET r == compute_all_symbols("", sa.stack_symbols_alloc, field, "Stack",
                                      sa.stack_symbols, checks)
             laid == [sa EXCEPT !.stack_symbols = r.symbols]
             cursor == add_assign_u16(sa.stack_symbols_alloc, r.size, checks)
         IN  IF r.panic # "none" THEN Failed(laid, r.panic)
             ELSE IF cursor.panic # "none" THEN Failed(laid, cursor.panic)
             ELSE Done([laid EXCEPT !.stack_symbols_alloc = cursor.val],
                       sa.stack_symbols_alloc)

\* The first symbol of a table with the given name: Some of it, or None.
find(symbols, name) ==
    LET hits == {i \in 1..Len(symbols) : symbols[i].name = name} IN
    IF hits = {} THEN None
    ELSE Some(symbols[CHOOSE i \in hits : \A j \in hits : i <= j])

\* get searching the static table before the stack table.
get_static_first(sa, name) ==
    LET hit == find(sa.static_symbols \o sa.stack_symbols \o sa.const_symbols
                    \o sa.absolute_symbols, name)
    IN  IF hit = None THEN [panic |-> "Undefined symbol", val |-> None]
        ELSE [panic |-> "none", val |-> hit]

get(sa, name) ==
    LET hit == find(sa.stack_symbols \o sa.static_symbols \o sa.const_symbols
                    \o sa.absolute_symbols, name)
    IN  IF hit = None THEN [panic |-> "Undefined symbol", val |-> None]
        ELSE [panic |-> "none", val |-> hit]

\* The fields the entry points are called with.
Leaf(size) == IF size = 1 THEN U8 ELSE Array(size)
Members(sizes) ==
    <<Field("a", Leaf(sizes[1])), Field("b", Leaf(sizes[2])), Field("c", Leaf(sizes[3]))>>
\* Sizes of the three members of the flat struct and union fields.
MemberSizes == { <<1, 2, 3>>, <<2, 1, 1>>, <<3, 3, 2>> }
FlatStructs == { Field("s", Struct(Members(sz))) : sz \in MemberSizes }
FlatUnions == { Field("u", Union(Members(sz))) : sz \in MemberSizes }
\* A struct holding a struct, a struct holding a union, a union holding a
\* struct.
NestedStruct ==
    Field("t", Struct(<<Field("a", U8),
                        Field("s", Struct(<<Field("a", U8), Field("b", Array(2))>>)),
                        Field("z", U8)>>))
StructOfUnion ==
    Field("v", Struct(<<Field("a", U8),
                        Field("u", Union(<<Field("p", Array(2)), Field("q", U8)>>)),
                        Field("z", U8)>>))
UnionOfStruct ==
    Field("w", Union(<<Field("s", Struct(<<Field("a", U8), Field("b", U8)>>)),
                       Field("q", Array(3))>>))
Fields ==
    { Field("x", U8), Field("s", U8) }
    \cup FlatStructs \cup FlatUnions
    \cup { NestedStruct, StructOfUnion, UnionOfStruct }
\* The fixed offsets alloc_absolute is called with.
AbsoluteOffsets == { 7 }

InitSym ==
    /\ symbol_alloc = SymbolAlloc_default
    /\ sym_panic = "none"
    /\ sym_last = [op |-> "new", space |-> "none", field |-> Field("", U8),
                   offset |-> 0, ret |-> 0, found |-> <<>>, name |-> "",
                   before |-> SymbolAlloc_default, idents |-> {}]
    /\ sym_idents = {}
    /\ sym_allocs = 0
    /\ sym_cleared = {}

\* One call of an alloc_* entry point, r being what the call yields.
AllocCall(op, space, field, offset, r) ==
    /\ sym_panic = "none"
    /\ sym_allocs < MaxAllocs
    /\ symbol_alloc' = r.alloc
    /\ sym_panic' = r.panic
    /\ sym_last' = [op |-> op, space |-> space, field |-> field, offset |-> offset,
                    ret |-> r.ret, found |-> <<>>, name |-> "",
                    before |-> symbol_alloc, idents |-> sym_idents]
    /\ sym_idents' = IF r.panic = "none"
                       THEN sym_idents \cup {<<field.ident, space>>}
                       ELSE sym_idents
    /\ sym_allocs' = sym_allocs + 1
    /\ UNCHANGED <<sym_cleared, vmvars, regvars, fnvars>>

AllocConst(field) ==
    AllocCall("alloc_const", "Const", field, symbol_alloc.const_symbols_alloc,
              alloc_const(symbol_alloc, field, overflow_checks))

AllocStatic(field) ==
    AllocCall("alloc_static", "Static", field, symbol_alloc.static_symbols_alloc,
              alloc_static(symbol_alloc, field, overflow_checks))

AllocAbsolute(field, offset) ==
    AllocCall("alloc_absolute", "Absolute", field, offset,
              alloc_absolute(symbol_alloc, field, offset, overflow_checks))

AllocStackField(field) ==
    AllocCall("alloc_stack_field", "Stack", field, symbol_alloc.stack_symbols_alloc,
              alloc_stack_field(symbol_alloc, field, overflow_checks))

ClearStack ==
    /\ sym_panic = "none"
    /\ LET r == clear_stack(symbol_alloc) IN
         /\ symbol_alloc' = r.alloc
         /\ sym_panic' = r.panic
         /\ sym_last' = [op |-> "clear_stack", space |-> "Stack",
                         field |-> Field("", U8), offset |-> 0, ret |-> 0,
                         found |-> <<>>, name |-> "",
                         before |-> symbol_alloc, idents |-> sym_idents]
    /\ sym_idents' = {p \in sym_idents : p[2] # "Stack"}
    /\ sym_cleared' = sym_cleared \cup {p[1] : p \in {q \in sym_idents : q[2] = "Stack"}}
    /\ UNCHANGED <<sym_allocs, vmvars, regvars, fnvars>>

\* The names get is called with.
Names == { "x", "s", "s::a", "v::u::q" }

Get(name) ==
    /\ sym_panic = "none"
    /\ LET r == get(symbol_alloc, name) IN
         /\ sym_panic' = r.panic
         /\ sym_last' = [op |-> "get", space |-> "none", field |-> Field("", U8),
                         offset |-> 0, ret |-> 0, found |-> r.val, name |-> name,
                         before |-> symbol_alloc, idents |-> sym_idents]
    /\ UNCHANGED <<symbol_alloc, sym_idents, sym_allocs, sym_cleared, vmvars, regvars,
                   fnvars>>

NextSym ==
    \/ \E field \in Fields : AllocConst(field)
    \/ \E field \in Fields : AllocStatic(field)
    \/ \E field \in Fields, offset \in AbsoluteOffsets : AllocAbsolute(field, offset)
    \/ \E field \in Fields : AllocStackField(field)
    \/ ClearStack
    \/ \E name \in Names : Get(name)

\* The fields that fill a space: leaves, a struct, a union, and an array one
\* byte short of the 64 KiB a space holds.
CursorFields ==
    { Field("x", U8), Field("y", Array(2)),
      Field("s", Struct(Members(<<1, 2, 3>>))),
      Field("u", Union(Members(<<3, 3, 2>>))),
      Field("big", Array(MemSize - 1)) }

NextCursor ==
    \/ \E field \in CursorFields : AllocConst(field)
    \/ \E field \in CursorFields : AllocStatic(field)
    \/ \E field \in CursorFields, offset \in AbsoluteOffsets :
          AllocAbsolute(field, offset)
    \/ \E field \in CursorFields : AllocStackField(field)
    \/ ClearStack

\* ------------------------------------------------------------- FnAlloc
\* Functions: the names declared, and two declarations told apart under each.
FnNames == {"main", "f", "g"}
FnBodies == {"first", "second"}
Fn(ident, body) == [ident |-> ident, body |-> body]
Fns == { Fn(ident, body) : ident \in FnNames, body \in FnBodies }
NoFn == Fn("", "")

\* FnAlloc::default: no function is bound.
FnAlloc_default == [n \in {} |-> NoFn]

\* HashMap::insert: binds the key, and returns what the key was bound to.
HashMap_insert(map, key, value) ==
    [map |-> [k \in DOMAIN map \cup {key} |-> IF k = key THEN value ELSE map[k]],
     old |-> IF key \in DOMAIN map THEN Some(map[key]) ELSE None]

\* alloc inserting without the assertion: a later declaration replaces the
\* earlier one under its name.
FnAlloc_alloc_replaces(map, fn_) ==
    [fns |-> HashMap_insert(map, fn_.ident, fn_).map, panic |-> "none"]

\* FnAlloc::alloc: the insertion is made, then its result is asserted.
FnAlloc_alloc(map, fn_) ==
    LET inserted == HashMap_insert(map, fn_.ident, fn_) IN
      [fns |-> inserted.map,
       panic |-> IF inserted.old = None THEN "none" ELSE "assert"]

\* FnAlloc::get: HashMap's Index panics on a key that is not bound.
FnAlloc_get(map, name) ==
    IF name \in DOMAIN map THEN Ok(map[name]) ELSE [panic |-> "index", val |-> NoFn]

FnAllocUnused ==
    /\ fns = FnAlloc_default
    /\ fn_panic = "none"
    /\ fn_last = [op |-> "new", fn_ |-> NoFn, name |-> "", val |-> NoFn,
                  before |-> FnAlloc_default]
    /\ fn_allocated = {}

FnAlloc(fn_) ==
    /\ fn_panic = "none"
    /\ \E r \in {FnAlloc_alloc(fns, fn_)} :
         /\ fns' = r.fns
         /\ fn_panic' = r.panic
         /\ fn_allocated' = IF r.panic = "none" THEN fn_allocated \cup {fn_}
                            ELSE fn_allocated
    /\ fn_last' = [op |-> "alloc", fn_ |-> fn_, name |-> fn_.ident, val |-> NoFn,
                   before |-> fns]
    /\ UNCHANGED <<vmvars, regvars, symvars>>

FnGet(name) ==
    /\ fn_panic = "none"
    /\ \E r \in {FnAlloc_get(fns, name)} :
         /\ fn_panic' = r.panic
         /\ fn_last' = [op |-> "get", fn_ |-> NoFn, name |-> name,
                        val |-> IF r.panic = "none" THEN r.val ELSE NoFn,
                        before |-> fns]
    /\ UNCHANGED <<fns, fn_allocated, vmvars, regvars, symvars>>

NextFn ==
    \/ \E fn_ \in Fns : FnAlloc(fn_)
    \/ \E name \in FnNames : FnGet(name)

\* ------------------------------------------------------------ programs
Stop == [op |-> "Stop"]
Ret == [op |-> "Ret"]
Nop == [op |-> "Nop"]
Ld(s, d) == [op |-> "Ld", source |-> s, destination |-> d]
Call(r, a, b) == [op |-> "Call", routine |-> r, range |-> [start |-> a, end |-> b]]

\* Statements of the call programs: a routine may write its frame, call
\* routine 1 or the entry routine with the argument range 1..3, return or stop.
CallStatements ==
    { Stop, Ret,
      Call(1, 1, 3),
      Call(0, 1, 3),
      Ld(Literal(7), Pointer("Stack", 1)) }

Routines(stmts, len) == [1..len -> stmts]

CallPrograms ==
    { [routines |-> <<m, c>>, const_ |-> <<5, 6>>, main |-> 0] :
        m \in Routines(CallStatements, RoutineLen),
        c \in Routines(CallStatements, CalleeLen) }

LdW(s, d) == [op |-> "LdW", source |-> s, destination |-> d]
Unary(op, s, d) == [op |-> op, source |-> s, destination |-> d]
Binary(op, l, r, d) == [op |-> op, left |-> l, right |-> r, destination |-> d]

Unary8Ops == {"Inc", "Dec"}
Unary16Ops == {"IncW", "DecW"}
Binary8Ops == {"Add", "Sub", "And", "Or", "Xor", "Mul", "Div", "Rem",
               "LeftShift", "RightShift",
               "Eq", "NotEq", "Greater", "GreaterEq", "Less", "LessEq"}
Binary16Ops == {"AddW", "SubW", "AndW", "OrW", "XorW",
                "MulW", "DivW", "RemW", "LeftShiftW", "RightShiftW"}
WritingOps == {"Ld", "LdW"} \cup Unary8Ops \cup Unary16Ops
                \cup Binary8Ops \cup Binary16Ops

\* Destinations of the memory programs: address 0 of every space, a register,
\* an indexed address, and an address whose index overflows 16 bits.
MemDestinations ==
    { Pointer("Static", 0), Pointer("Absolute", 0), Pointer("Return", 0),
      Pointer("Stack", 0), Pointer("Const", 0), Register(0),
      PointerAt("Const", 0, Literal(1)),
      PointerAt("Static", 65535, Literal(1)) }

\* An 8-bit and a 16-bit store to every destination, and Stop.
StoreStatements ==
    { Stop }
    \cup { Ld(Literal(9), d) : d \in MemDestinations }
    \cup { LdW(Literal(258), d) : d \in MemDestinations }

\* Every other writing statement, with the constant pool as destination.
ConstStatements ==
    { Unary(op, Pointer("Static", 0), Pointer("Const", 0)) :
        op \in Unary8Ops \cup Unary16Ops }
    \cup { Binary(op, Pointer("Static", 0), Literal(3), Pointer("Const", 0)) :
              op \in Binary8Ops \cup Binary16Ops }

\* The memory programs: stores, then one more statement of either kind.
MemPrograms ==
    { [routines |-> <<m \o <<s>> >>, const_ |-> <<5, 6>>, main |-> 0] :
        m \in Routines(StoreStatements, MemLen - 1),
        s \in StoreStatements \cup ConstStatements }

\* Operands at and next to the ends of the 8-bit and the 16-bit range.
Operands8 == {0, 1, 2, 127, 128, 255}
Operands16 == {0, 1, 255, 256, 65535}
ArithDestinations == { Register(0), Pointer("Static", 0) }
WrappingOps8 == {"Add", "Sub", "Inc", "Dec"}
WrappingOps16 == {"AddW", "SubW", "IncW", "DecW"}

\* One wrapping statement on literal operands.
ArithStatements ==
    { Binary(op, Literal(l), Literal(r), d) :
        op \in {"Add", "Sub"}, l \in Operands8, r \in Operands8, d \in ArithDestinations }
    \cup { Unary(op, Literal(l), d) :
              op \in {"Inc", "Dec"}, l \in Operands8, d \in ArithDestinations }
    \cup { Binary(op, Literal(l), Literal(r), d) :
              op \in {"AddW", "SubW"}, l \in Operands16, r \in Operands16,
              d \in ArithDestinations }
    \cup { Unary(op, Literal(l), d) :
              op \in {"IncW", "DecW"}, l \in Operands16, d \in ArithDestinations }

\* The arithmetic programs: one wrapping statement, then Stop.
ArithPrograms ==
    { [routines |-> << <<s, Stop>> >>, const_ |-> <<>>, main |-> 0] :
        s \in ArithStatements }

\* --------------------------------------------------------------- actions
InitVM(programs, orders, profiles) ==
    \E p \in programs, order \in orders, checks \in profiles :
      LET vm == new(p, order, checks) IN
        /\ ir = vm.ir
        /\ byte_order = vm.byte_order
        /\ overflow_checks = vm.overflow_checks
        /\ running = vm.running
        /\ routine = vm.routine
        /\ pc = vm.pc
        /\ static_ = vm.static_
        /\ return_ = vm.return_
        /\ stack = vm.stack
        /\ reg8 = vm.reg8
        /\ reg16 = vm.reg16
        /\ panic = vm.panic
        /\ hist = <<>>
        /\ idle = 0
        /\ cycles = 0

\* One call of VM::update (one iteration of VM::run's loop).
Update ==
    /\ panic = "none"
    /\ \E f \in {fetch(TheVM)}, vm \in {update(TheVM)} :
           /\ (running /\ f.panic = "none" /\ f.val.op = "Call")
                 => Len(stack) < MaxDepth
           /\ ~running => idle < MaxIdle
           /\ running => cycles < MaxCycles
           /\ idle' = IF running THEN idle ELSE idle + 1
           /\ cycles' = IF running THEN cycles + 1 ELSE cycles
           /\ running' = vm.running
           /\ routine' = vm.routine
           /\ pc' = vm.pc
           /\ static_' = vm.static_
           /\ return_' = vm.return_
           /\ stack' = vm.stack
           /\ reg8' = vm.reg8
           /\ reg16' = vm.reg16
           /\ panic' = vm.panic
           /\ hist' = IF running
                        THEN (IF hist = <<>> THEN <<>> ELSE <<Last(hist)>>)
                             \o <<[vm |-> TheMachine,
                                   stmt |-> IF f.panic = "none" THEN f.val
                                            ELSE NoStatement]>>
                        ELSE hist
           /\ UNCHANGED <<ir, byte_order, overflow_checks>>
    /\ UNCHANGED <<regvars, symvars, fnvars>>

NextVM == Update

\* The allocators as constructed, with no call made yet.
RegisterAllocUnused ==
    /\ bitset = {}
    /\ reg_panic = "none"
    /\ reg_last = [op |-> "new", arg |-> 0, val |-> 0, before |-> {}, live |-> {}]
    /\ reg_live = {}
    /\ reg_ops = 0
    /\ reg_misused = FALSE
AllocatorsUnused == RegisterAllocUnused /\ InitSym /\ FnAllocUnused

\* The program of the VM that stands beside an allocator in use.
StopProgram == [routines |-> << <<Stop>> >>, const_ |-> <<>>, main |-> 0]

\* The call programs compute nothing that depends on the byte order or on the
\* build profile.
InitCall == InitVM(CallPrograms, {"LE"}, {TRUE}) /\ AllocatorsUnused
SpecCall == InitCall /\ [][NextVM]_vars

InitMem == InitVM(MemPrograms, {"BE", "LE"}, BOOLEAN) /\ AllocatorsUnused
SpecMem == InitMem /\ [][NextVM]_vars

InitArith == InitVM(ArithPrograms, {"BE", "LE"}, BOOLEAN) /\ AllocatorsUnused
SpecArith == InitArith /\ [][NextVM]_vars

\* The counting program: load the count into the counter register; while the
\* counter is not zero, increment the static cell and decrement the counter;
\* then Stop.
Jmp(rel) == [op |-> "Jmp", location |-> rel]
JmpCmp(s, rel) == [op |-> "JmpCmp", source |-> s, location |-> rel]
JmpCmpNot(s, rel) == [op |-> "JmpCmpNot", source |-> s, location |-> rel]
CountingProgram(n) ==
    [routines |-> << << Ld(Literal(n), Register(0)),
                        JmpCmpNot(Register(0), 3),
                        Unary("Inc", Pointer("Static", 0), Pointer("Static", 0)),
                        Unary("Dec", Register(0), Register(0)),
                        Jmp(-4),
                        Stop >> >>,
     const_ |-> <<>>, main |-> 0]
TripCounts == 0..MaxTrips \cup {42}
CountingPrograms == { CountingProgram(n) : n \in TripCounts }

\* VM::run calls update for as long as the machine runs, so a cycle that can
\* be taken is taken.
InitCount == InitVM(CountingPrograms, {"LE"}, BOOLEAN) /\ AllocatorsUnused
SpecCount == InitCount /\ [][NextVM]_vars /\ WF_vars(NextVM)

\* The jump programs: a routine of Nops that ends in Stop, with a Jmp at
\* statement p whose target is a statement of the routine or lies next to
\* either end of it. The routine is the entry routine, or is called by it.
JmpRoutine(p, target) ==
    [i \in 1..JmpLen |->
       IF i = p + 1 THEN Jmp(target - p - 1)
       ELSE IF i = JmpLen THEN Stop ELSE Nop]
JmpRoutines == { JmpRoutine(p, target) : p \in 0..(JmpLen - 1), target \in -1..JmpLen }
JmpPrograms ==
    { [routines |-> <<r>>, const_ |-> <<>>, main |-> 0] : r \in JmpRoutines }
    \cup { [routines |-> << <<Call(1, 0, 0), Stop>>, r >>, const_ |-> <<>>, main |-> 0] :
             r \in JmpRoutines }

InitJmp == InitVM(JmpPrograms, {"LE"}, BOOLEAN) /\ AllocatorsUnused
SpecJmp == InitJmp /\ [][NextVM]_vars

\* The conditional-jump programs: a byte is loaded where the jump tests it (a
\* register, a static cell, or the literal of the jump itself), then JmpCmp or
\* JmpCmpNot at statement 1 aims at a statement of the routine. The routine is
\* the entry routine, or is called by it.
CondBytes == {0, 1, 255}
CondSources(v) == { Register(0), Pointer("Static", 0), Literal(v) }
CondDestination(source) ==
    IF source.k = "Literal" THEN Register(1) ELSE source
CondRoutine(op, v, source, target) ==
    << Ld(Literal(v), CondDestination(source)),
       [op |-> op, source |-> source, location |-> target - 2],
       Nop,
       Stop >>
CondRoutines ==
    UNION { { CondRoutine(op, v, source, target) : source \in CondSources(v) } :
              op \in {"JmpCmp", "JmpCmpNot"}, v \in CondBytes, target \in {0, 1, 3} }
CondPrograms ==
    { [routines |-> <<r>>, const_ |-> <<>>, main |-> 0] : r \in CondRoutines }
    \cup { [routines |-> << <<Call(1, 0, 0), Stop>>, r >>, const_ |-> <<>>, main |-> 0] :
             r \in CondRoutines }

InitCond == InitVM(CondPrograms, {"LE"}, BOOLEAN) /\ AllocatorsUnused
SpecCond == InitCond /\ [][NextVM]_vars

\* The return programs: the entry routine writes u to cell k of its frame,
\* calls routine 1, then reads return address a and cell k of its frame; the
\* callee writes v to return address a and w to cell k of its own frame, then
\* returns.
ReturnProgram(u, v, w, a, k, range) ==
    [routines |->
       << << Ld(Literal(u), Pointer("Stack", k)),
             [op |-> "Call", routine |-> 1, range |-> range],
             Ld(Pointer("Return", a), Register(0)),
             Ld(Pointer("Stack", k), Register(1)),
             Stop >>,
          << Nop,
             Ld(Literal(v), Pointer("Return", a)),
             Ld(Literal(w), Pointer("Stack", k)),
             Ret >> >>,
     const_ |-> <<>>, main |-> 0]
ReturnPrograms ==
    { ReturnProgram(u, v, 2, a, k, range) :
        u \in {0, 3}, v \in {1, 255}, a \in {0, MemSize - 1},
        k \in 0..(FrameSize - 1),
        range \in {[start |-> 0, end |-> 0], [start |-> 0, end |-> FrameSize]} }

InitRet == InitVM(ReturnPrograms, {"LE"}, BOOLEAN) /\ AllocatorsUnused
SpecRet == InitRet /\ [][NextVM]_vars

\* The alias programs: a byte is written through one of Absolute and Static
\* and read back through one of them, then a 16-bit word likewise, at the
\* first addresses, the last address a word fits at, and the last address.
AliasSpaces == {"Absolute", "Static"}
AliasAddresses == {0, 1, MemSize - 2, MemSize - 1}
AliasProgram(x, y, a) ==
    [routines |-> << << Ld(Literal(200), Pointer(x, a)),
                        Ld(Pointer(y, a), Register(0)),
                        LdW(Literal(258), Pointer(x, a)),
                        LdW(Pointer(y, a), Register(1)),
                        Stop >> >>,
     const_ |-> <<>>, main |-> 0]
AliasPrograms ==
    { AliasProgram(x, y, a) : x \in AliasSpaces, y \in AliasSpaces, a \in AliasAddresses }

InitAlias == InitVM(AliasPrograms, {"BE", "LE"}, BOOLEAN) /\ AllocatorsUnused
SpecAlias == InitAlias /\ [][NextVM]_vars

\* The division programs: 9 is stored in the destination, then Div or Rem
\* divides a literal by a divisor read from a literal, a register or a static
\* cell (the two last read 0), and Stop follows.
DivDestinations == { Register(0), Pointer("Static", 1) }
Divisors == { Literal(0), Literal(3), Literal(255), Register(1), Pointer("Static", 0) }
DivProgram(op, l, r, d) ==
    [routines |-> << << Ld(Literal(9), d), Binary(op, Literal(l), r, d), Stop >> >>,
     const_ |-> <<>>, main |-> 0]
DivPrograms ==
    { DivProgram(op, l, r, d) :
        op \in {"Div", "Rem"}, l \in {0, 7, 255}, r \in Divisors, d \in DivDestinations }

InitDiv == InitVM(DivPrograms, {"LE"}, BOOLEAN) /\ AllocatorsUnused
SpecDiv == InitDiv /\ [][NextVM]_vars

\* The word programs: a word is written to an address of a writable space,
\* read back as a word, and its two bytes are read one by one.
WordValues == {0, 1, 255, 256, 258, 65280, 65535}
WordPlaces ==
    { Pointer(sp, a) : sp \in {"Static", "Absolute", "Return"},
                       a \in {0, 1, MemSize - 2} }
    \cup { Pointer("Stack", a) : a \in {0, FrameSize - 2} }
NextByte(place) == Pointer(place.base.space, place.base.addr + 1)
WordProgram(v, place) ==
    [routines |-> << << LdW(Literal(v), place),
                        LdW(place, Register(0)),
                        Ld(place, Register(0)),
                        Ld(NextByte(place), Register(1)),
                        Stop >> >>,
     const_ |-> <<>>, main |-> 0]
WordPrograms == { WordProgram(v, place) : v \in WordValues, place \in WordPlaces }

InitWord == InitVM(WordPrograms, {"BE", "LE"}, BOOLEAN) /\ AllocatorsUnused
SpecWord == InitWord /\ [][NextVM]_vars

InitRegisterAlloc ==
    InitVM({StopProgram}, {"LE"}, BOOLEAN) /\ InitReg /\ InitSym /\ FnAllocUnused
SpecReg == InitRegisterAlloc /\ [][NextReg]_vars

InitSymbolAlloc ==
    /\ InitVM({StopProgram}, {"LE"}, BOOLEAN)
    /\ RegisterAllocUnused /\ InitSym /\ FnAllocUnused
SpecSym == InitSymbolAlloc /\ [][NextSym]_vars

SpecCursor == InitSymbolAlloc /\ [][NextCursor]_vars

InitFnAlloc == InitVM({StopProgram}, {"LE"}, {TRUE}) /\ AllocatorsUnused
SpecFn == InitFnAlloc /\ [][NextFn]_vars

\* ---------------------------------------------------------------- claims
\* The last cycle run, and the one before it.
LastCycle == hist[Len(hist)]
CycleBefore == hist[Len(hist) - 1]
\* The VM as it was when a cycle began.
Before(cycle) == VMOf(cycle.vm)
\* The machine without the panic mark, to compare with a state before.
Unmarked == [TheVM EXCEPT !.panic = "none"]

\* C1: a Call whose callee executes Ret as its first statement leaves the
\* caller's routine current, the program counter at the statement after the
\* Call, and the caller's frame as it was before the Call.
C1_CallRetRoundTrip ==
    (Len(hist) = 2 /\ CycleBefore.stmt.op = "Call" /\ LastCycle.stmt.op = "Ret")
      => LET before == Before(CycleBefore) IN
           /\ panic = "none"
           /\ routine = before.routine
           /\ vm_pc(TheVM) = vm_pc(before) + 1
           /\ Front(pc) = Front(before.pc)
           /\ stack = before.stack

\* A nested call returned into a frame that holds an argument byte.
C1_Witness ==
    /\ Len(hist) = 2
    /\ CycleBefore.stmt.op = "Call"
    /\ LastCycle.stmt.op = "Ret"
    /\ routine # <<>>
    /\ vm_pc(TheVM) = 2
    /\ current_stack_frame(TheVM)[1] = 7

\* C2: the machine starts running; only Stop stops it; once stopped, a call
\* of update changes no part of the machine.
C2_StoppedIsTerminal ==
    /\ [](hist = <<>> /\ idle = 0 => running)
    /\ [][ /\ (running /\ ~running') =>
                (fetch(TheVM).panic = "none" /\ fetch(TheVM).val.op = "Stop")
           /\ ~running =>
                /\ ~running'
                /\ UNCHANGED <<routine, pc, static_, return_, stack, reg8,
                               reg16, panic, ir>> ]_vars

\* update was called on a machine that Stop had stopped.
C2_Witness ==
    /\ ~running
    /\ idle = MaxIdle
    /\ LastCycle.stmt.op = "Stop"
    /\ Len(stack) > 1

\* A cycle whose statement writes through a pointer into the given spaces.
WritesInto(cycle, spaces) ==
    /\ cycle.stmt.op \in WritingOps
    /\ cycle.stmt.destination.k = "Pointer"
    /\ cycle.stmt.destination.base.space \in spaces

\* The slots RegisterAlloc::get reports allocated.
Allocated(bits) ==
    {i \in 0..(NumSlots - 1) : RegisterAlloc_get(bits, i, overflow_checks).val}

\* C3: while free is called only on an allocated index and alloc only with a
\* slot to spare, alloc returns the smallest index not allocated and marks
\* that index and no other, and len is the number of allocated indices.
C3_AllocReturnsLowestFree ==
    ~reg_misused =>
      /\ reg_panic = "none"
      /\ RegisterAlloc_len(bitset) = Cardinality(reg_live)
      /\ Allocated(bitset) = reg_live
      /\ reg_last.op = "alloc" =>
           LET unused == 0..(NumSlots - 1) \ reg_last.live IN
             /\ reg_last.val \in unused
             /\ \A i \in unused : reg_last.val <= i
             /\ Allocated(bitset) = Allocated(reg_last.before) \cup {reg_last.val}

\* alloc handed out the freed index 0 while a higher index was in use.
C3_Witness ==
    /\ ~reg_misused
    /\ reg_last.op = "alloc"
    /\ reg_last.val = 0
    /\ 1 \in reg_last.before
    /\ RegisterAlloc_len(bitset) >= 2

\* C7: a writing statement whose destination is a Const pointer aborts the
\* machine and changes nothing.
C7_ConstWriteFaults ==
    (hist # <<>> /\ WritesInto(LastCycle, {"Const"}))
      => /\ panic # "none"
         /\ Unmarked = Before(LastCycle)

\* An arithmetic statement aborted on the constant pool after a store.
C7_Witness ==
    /\ hist # <<>>
    /\ WritesInto(LastCycle, {"Const"})
    /\ LastCycle.stmt.op = "Sub"
    /\ panic = "rom"
    /\ static_ # ZeroMemory

\* What a read of each width returns at address a of a space.
Observe(vm, space, a) ==
    <<read(vm, Pointer(space, a)), read_u16(vm, Pointer(space, a))>>
ObservedAddresses == 0..FrameSize
SameIn(spaces) ==
    \A sp \in spaces, a \in ObservedAddresses :
      Observe(TheVM, sp, a) = Observe(Before(LastCycle), sp, a)

\* C8: a write through Static or Absolute changes no read of Const, Return or
\* Stack; a write through Return none of Static, Const or Stack; a write
\* through Stack none of Static, Const or Return.
C8_SpacesDisjoint ==
    hist # <<>> =>
      /\ WritesInto(LastCycle, {"Static", "Absolute"})
           => (SameIn({"Const", "Return", "Stack"})
               /\ return_ = Before(LastCycle).return_ /\ stack = Before(LastCycle).stack)
      /\ WritesInto(LastCycle, {"Return"})
           => (SameIn({"Static", "Absolute", "Const", "Stack"})
               /\ static_ = Before(LastCycle).static_ /\ stack = Before(LastCycle).stack)
      /\ WritesInto(LastCycle, {"Stack"})
           => (SameIn({"Static", "Absolute", "Const", "Return"})
               /\ static_ = Before(LastCycle).static_ /\ return_ = Before(LastCycle).return_)

\* Static address 0 was written while Return address 0 held another byte.
C8_Witness ==
    /\ hist # <<>>
    /\ LastCycle.stmt = Ld(Literal(9), Pointer("Static", 0))
    /\ panic = "none"
    /\ Load(static_, 0) = 9
    /\ Load(return_, 0) \notin {0, 9}
    /\ Load(Before(LastCycle).static_, 0) = 0

\* C9: after Call the new top frame starts with the caller's bytes of the
\* range, holds the fresh-frame value elsewhere, and the caller's frame, now
\* second from the top, is unchanged.
C9_CallCopiesArguments ==
    (hist # <<>> /\ LastCycle.stmt.op = "Call" /\ panic = "none")
      => LET before == Before(LastCycle)
             range == LastCycle.stmt.range
             n == range.end - range.start
         IN  /\ Len(stack) = Len(before.stack) + 1
             /\ Front(stack) = before.stack
             /\ \A i \in 0..(FrameSize - 1) :
                  current_stack_frame(TheVM)[i + 1] =
                    IF i < n
                      THEN current_stack_frame(before)[range.start + i + 1]
                      ELSE StackFrame_new[i + 1]

\* A call copied the byte the caller had stored at position 1 to position 0.
C9_Witness ==
    /\ hist # <<>>
    /\ LastCycle.stmt.op = "Call"
    /\ panic = "none"
    /\ current_stack_frame(Before(LastCycle))[2] = 7
    /\ current_stack_frame(Before(LastCycle))[1] = 0
    /\ current_stack_frame(TheVM)[1] = 7

\* C10: Ret with no call outstanding aborts the machine and pops neither the
\* program-counter stack nor the frame stack.
C10_RetUnderflowFaults ==
    (hist # <<>> /\ LastCycle.stmt.op = "Ret" /\ Before(LastCycle).routine = <<>>)
      => /\ panic # "none"
         /\ pc = Before(LastCycle).pc
         /\ stack = Before(LastCycle).stack
         /\ Unmarked = Before(LastCycle)

\* The entry routine executed Ret after a call had returned.
C10_Witness ==
    /\ Len(hist) = 2
    /\ LastCycle.stmt.op = "Ret"
    /\ CycleBefore.stmt.op = "Ret"
    /\ Before(LastCycle).routine = <<>>
    /\ panic = "unwrap"


\* ------------------------------------------------- claims on SymbolAlloc
AllocOps == {"alloc_const", "alloc_static", "alloc_absolute", "alloc_stack_field"}

Table(sa, space) ==
    CASE space = "Absolute" -> sa.absolute_symbols
      [] space = "Const" -> sa.const_symbols
      [] space = "Static" -> sa.static_symbols
      [] space = "Stack" -> sa.stack_symbols

Cursor(sa, space) ==
    CASE space = "Absolute" -> sa.absolute_symbols_alloc
      [] space = "Const" -> sa.const_symbols_alloc
      [] space = "Static" -> sa.static_symbols_alloc
      [] space = "Stack" -> sa.stack_symbols_alloc

\* The last call was an alloc_* entry point that returned.
Allocated_ == sym_last.op \in AllocOps /\ sym_panic = "none"

\* The symbols the last call appended to the table of its space, and whether it
\* left the symbols that were there in place.
Added ==
    LET was == Table(sym_last.before, sym_last.space)
        now == Table(symbol_alloc, sym_last.space)
    IN  SubSeq(now, Len(was) + 1, Len(now))
Kept ==
    LET was == Table(sym_last.before, sym_last.space)
        now == Table(symbol_alloc, sym_last.space)
    IN  Len(was) <= Len(now) /\ SubSeq(now, 1, Len(was)) = was

\* How far the last call moved the cursor of its space.
Advance == Cursor(symbol_alloc, sym_last.space) - Cursor(sym_last.before, sym_last.space)

RECURSIVE SumTo(_, _)
SumTo(sizes, n) == IF n = 0 THEN 0 ELSE sizes[n] + SumTo(sizes, n - 1)

Placed(symbol, name, offset, size) ==
    symbol.name = name /\ symbol.offset = offset /\ symbol.size = size

\* C4: an alloc_* call for an identifier that an earlier call allocated, in any
\* space, and that clear_stack has not removed since, aborts and leaves every
\* table and every cursor as it was, whatever the type of the field.
C4_DuplicateRejected ==
    (/\ sym_last.op \in AllocOps
     /\ \E p \in sym_last.idents : p[1] = sym_last.field.ident)
    => (sym_panic # "none" /\ symbol_alloc = sym_last.before)

\* C5: a struct of leaf members of sizes [a, b, c] allocated at base offset B
\* appends exactly the symbols <struct>::<member>, at offsets [B, B+a, B+a+b]
\* with sizes [a, b, c]; the cursor of a space that allocates by cursor
\* advances by a+b+c; a struct nested in a struct starts at the running offset
\* and the member after it follows its last byte.
C5_StructLayout ==
    (Allocated_ /\ sym_last.field.type_.t = "Struct") =>
      LET B == sym_last.offset
          ident == sym_last.field.ident
          members == sym_last.field.type_.fields
          sizes == [i \in 1..Len(members) |-> size_of(members[i].type_)]
      IN  /\ Kept
          /\ sym_last.field \in FlatStructs =>
               /\ Len(Added) = 3
               /\ \A i \in 1..3 :
                    /\ Placed(Added[i], ident \o "::" \o members[i].ident,
                              B + SumTo(sizes, i - 1), sizes[i])
                    /\ Added[i].space = sym_last.space
               /\ sym_last.space # "Absolute" => Advance = SumTo(sizes, 3)
          /\ sym_last.field = NestedStruct =>
               /\ Len(Added) = 4
               /\ Placed(Added[1], "t::a", B, 1)
               /\ Placed(Added[2], "t::s::a", B + 1, 1)
               /\ Placed(Added[3], "t::s::b", B + 2, 2)
               /\ Placed(Added[4], "t::z", B + 4, 1)
               /\ sym_last.space # "Absolute" => Advance = 5

\* A flat struct allocated after another field, at a base offset that is not 0.
C5_Witness ==
    /\ Allocated_
    /\ sym_last.op = "alloc_static"
    /\ sym_last.field \in FlatStructs
    /\ sym_last.offset > 0
    /\ Len(Added) = 3
    /\ Added[3].offset > Added[2].offset

\* C6: a union allocated at base offset B appends one symbol per leaf member,
\* each at offset B; a struct member of a union starts at B and so does the
\* member after it; the cursor of a space that allocates by cursor, and the
\* running offset of an enclosing struct, advance by the size of the union's
\* largest member.
C6_UnionLayout ==
    Allocated_ =>
      LET B == sym_last.offset
          ident == sym_last.field.ident
          members == sym_last.field.type_.fields
          sizes == [i \in 1..Len(members) |-> size_of(members[i].type_)]
      IN  /\ sym_last.field \in FlatUnions =>
               /\ Kept
               /\ Len(Added) = 3
               /\ \A i \in 1..3 :
                    Placed(Added[i], ident \o "::" \o members[i].ident, B, sizes[i])
               /\ sym_last.space # "Absolute" =>
                    /\ \E i \in 1..3 : Advance = sizes[i]
                    /\ \A i \in 1..3 : Advance >= sizes[i]
          /\ sym_last.field = UnionOfStruct =>
               /\ Kept
               /\ Len(Added) = 3
               /\ Placed(Added[1], "w::s::a", B, 1)
               /\ Placed(Added[2], "w::s::b", B + 1, 1)
               /\ Placed(Added[3], "w::q", B, 3)
               /\ sym_last.space # "Absolute" => Advance = 3
          /\ sym_last.field = StructOfUnion =>
               /\ Kept
               /\ Len(Added) = 4
               /\ Placed(Added[1], "v::a", B, 1)
               /\ Placed(Added[2], "v::u::p", B + 1, 2)
               /\ Placed(Added[3], "v::u::q", B + 1, 1)
               /\ Placed(Added[4], "v::z", B + 3, 1)
               /\ sym_last.space # "Absolute" => Advance = 4

\* A flat union whose members differ in size, allocated after another field.
C6_Witness ==
    /\ Allocated_
    /\ sym_last.op = "alloc_const"
    /\ sym_last.field \in FlatUnions
    /\ sym_last.offset > 0
    /\ Len(Added) = 3
    /\ Added[1].size # Added[3].size
    /\ Added[1].offset = Added[3].offset

\* ----------------------------------------------- claims on RegisterAlloc
\* C11: free(i) on an allocated index clears slot i and no other; free(i) on
\* an index that is not allocated aborts and leaves the allocator as it was.
C11_FreeClearsOnlyItsSlot ==
    reg_last.op = "free" =>
      IF reg_last.arg \in Allocated(reg_last.before)
        THEN /\ reg_panic = "none"
             /\ Allocated(bitset) = Allocated(reg_last.before) \ {reg_last.arg}
        ELSE /\ reg_panic # "none"
             /\ bitset = reg_last.before

\* C12: with all 64 slots allocated alloc aborts and leaves the allocator as
\* it was; an alloc that returns yields an index in [0, 64) that was clear.
C12_AllocExhaustion ==
    reg_last.op = "alloc" =>
      /\ Allocated(reg_last.before) = 0..(NumSlots - 1)
           => (reg_panic # "none" /\ bitset = reg_last.before)
      /\ reg_panic = "none"
           => /\ reg_last.val \in 0..(NumSlots - 1)
              /\ reg_last.val \notin Allocated(reg_last.before)

\* alloc was called with every slot taken.
C12_Witness ==
    /\ reg_last.op = "alloc"
    /\ reg_last.before = 0..(NumSlots - 1)
    /\ reg_panic = "unwrap"
    /\ RegisterAlloc_len(bitset) = NumSlots

\* ------------------------------------------------- claims on SymbolAlloc
\* The tables in the order get is said to search them.
LookupOrder == <<"Stack", "Static", "Const", "Absolute">>

Holds(space, name) ==
    \E i \in 1..Len(Table(symbol_alloc, space)) :
      Table(symbol_alloc, space)[i].name = name

\* The symbol is the first of its table with its name.
FirstOfTable(symbol, space) ==
    \E i \in 1..Len(Table(symbol_alloc, space)) :
      /\ Table(symbol_alloc, space)[i] = symbol
      /\ \A j \in 1..(i - 1) : Table(symbol_alloc, space)[j].name # symbol.name

\* C13: get returns the first symbol with the name in the first of the stack,
\* static, const and absolute tables that holds the name, aborts when none
\* holds it, and leaves the allocator as it was.
C13_GetLookupOrder ==
    sym_last.op = "get" =>
      /\ symbol_alloc = sym_last.before
      /\ (\A k \in 1..4 : ~Holds(LookupOrder[k], sym_last.name))
           => (sym_panic # "none" /\ sym_last.found = None)
      /\ \A k \in 1..4 :
           (/\ Holds(LookupOrder[k], sym_last.name)
            /\ \A h \in 1..(k - 1) : ~Holds(LookupOrder[h], sym_last.name))
           => /\ sym_panic = "none"
              /\ Len(sym_last.found) = 1
              /\ sym_last.found[1].name = sym_last.name
              /\ sym_last.found[1].space = LookupOrder[k]
              /\ FirstOfTable(sym_last.found[1], LookupOrder[k])

\* get found a name that the stack table and the static table both hold.
C13_Witness ==
    /\ sym_last.op = "get"
    /\ sym_last.name = "s::a"
    /\ Holds("Stack", "s::a")
    /\ Holds("Static", "s::a")
    /\ sym_panic = "none"
    /\ sym_last.found[1].space = "Stack"

\* C14: clear_stack leaves the stack table empty and the stack cursor 0 and
\* the other tables and cursors as they were; an alloc_stack_field called on
\* an empty stack table returns offset 0 and lays the field from 0, and it
\* returns whenever no call still in effect allocated the identifier, so an
\* identifier that only cleared stack symbols used is accepted again.
C14_ClearStack ==
    /\ sym_last.op = "clear_stack" =>
         /\ sym_panic = "none"
         /\ symbol_alloc.stack_symbols = <<>>
         /\ symbol_alloc.stack_symbols_alloc = 0
         /\ \A sp \in {"Static", "Const", "Absolute"} :
              /\ Table(symbol_alloc, sp) = Table(sym_last.before, sp)
              /\ Cursor(symbol_alloc, sp) = Cursor(sym_last.before, sp)
    /\ (/\ sym_last.op = "alloc_stack_field"
        /\ sym_last.before.stack_symbols = <<>>
        /\ sym_last.before.stack_symbols_alloc = 0) =>
         /\ (\A p \in sym_last.idents : p[1] # sym_last.field.ident)
              => sym_panic = "none"
         /\ sym_panic = "none" =>
              /\ sym_last.ret = 0
              /\ Added # <<>>
              /\ Added[1].offset = 0
              /\ Added = symbol_alloc.stack_symbols

\* A leaf field was allocated on the stack after a field, clear_stack dropped
\* both, and the same identifier was allocated on the stack again.
C14_Witness ==
    /\ sym_last.op = "alloc_stack_field"
    /\ sym_last.field = Field("x", U8)
    /\ "x" \in sym_cleared
    /\ sym_last.before.stack_symbols = <<>>
    /\ sym_panic = "none"
    /\ sym_last.ret = 0
    /\ symbol_alloc.stack_symbols_alloc = 1

\* ------------------------------------------------------ claims on the VM
\* What the last statement's destination holds, read at the statement's width.
Written(wide) ==
    IF wide THEN read_u16(TheVM, LastCycle.stmt.destination)
    ELSE read(TheVM, LastCycle.stmt.destination)

\* The literal operands of the last statement; Inc and Dec take 1 as the
\* second.
LeftOperand ==
    IF LastCycle.stmt.op \in {"Add", "Sub", "AddW", "SubW"}
      THEN LastCycle.stmt.left.val ELSE LastCycle.stmt.source.val
RightOperand ==
    IF LastCycle.stmt.op \in {"Add", "Sub", "AddW", "SubW"}
      THEN LastCycle.stmt.right.val ELSE 1

\* C15: Add, Sub, Inc and Dec write their result modulo 256, AddW, SubW, IncW
\* and DecW modulo 65536, and none of them aborts the machine.
C15_WrappingArithmetic ==
    (hist # <<>> /\ LastCycle.stmt.op \in WrappingOps8 \cup WrappingOps16) =>
      LET wide == LastCycle.stmt.op \in WrappingOps16
          modulus == IF wide THEN 65536 ELSE 256
          sum == IF LastCycle.stmt.op \in {"Add", "AddW", "Inc", "IncW"}
                   THEN LeftOperand + RightOperand
                   ELSE LeftOperand - RightOperand
      IN  /\ panic = "none"
          /\ Written(wide).panic = "none"
          /\ Written(wide).val \in 0..(modulus - 1)
          /\ \E k \in {-1, 0, 1} : Written(wide).val = sum + k * modulus

\* Add of 0xFF and 0x01 wrote 0x00 in a build that checks overflow.
C15_Witness ==
    /\ hist # <<>>
    /\ LastCycle.stmt = Binary("Add", Literal(255), Literal(1), Register(0))
    /\ overflow_checks
    /\ panic = "none"
    /\ reg8[0] = 0
    /\ vm_pc(TheVM) = 1

\* The trip count of the counting program that runs.
TripCount == ir.routines[1][1].source.val
\* The cycles of one trip of its loop (every statement but the load and Stop),
\* and the cycles outside the trips: the load, Stop and the test that leaves
\* the loop.
LoopCycles == Len(ir.routines[1]) - 2
Overhead == (Len(ir.routines[1]) - LoopCycles) + 1

Depths(vm) == <<Len(vm.routine), Len(vm.pc), Len(vm.stack)>>
\* What a statement adds to each depth.
DepthChange(stmt) ==
    CASE stmt.op = "Call" -> 1
      [] stmt.op = "Ret" -> -1
      [] OTHER -> 0

\* C18: while no cycle has faulted, the program-counter stack and the frame
\* stack have the same depth, one more than the routine stack and at least 1;
\* a Call cycle adds one to the three depths, a Ret cycle takes one from them,
\* and a cycle of any other statement leaves them.
C18_StackDepths ==
    panic = "none" =>
      /\ Len(pc) = Len(stack)
      /\ Len(pc) = Len(routine) + 1
      /\ Len(pc) >= 1
      /\ hist # <<>> =>
            \A i \in 1..3 :
              Depths(TheVM)[i] =
                Depths(Before(LastCycle))[i] + DepthChange(LastCycle.stmt)

\* A Call that follows a Ret took the machine from depth 1 to depth 2 again.
C18_Witness ==
    /\ Len(hist) = 2
    /\ CycleBefore.stmt.op = "Ret"
    /\ LastCycle.stmt.op = "Call"
    /\ panic = "none"
    /\ Depths(Before(CycleBefore)) = <<1, 2, 2>>
    /\ Depths(Before(LastCycle)) = <<0, 1, 1>>
    /\ Depths(TheVM) = <<1, 2, 2>>

\* C19: the cycle that follows a Call of routine R runs in routine R at
\* program counter 0: the first statement fetched and executed after the Call
\* is statement 0 of R.
C19_CalleeEntry ==
    (Len(hist) = 2 /\ CycleBefore.stmt.op = "Call"
       /\ Before(LastCycle).panic = "none") =>
      /\ Last(Before(LastCycle).routine) = CycleBefore.stmt.routine
      /\ vm_pc(Before(LastCycle)) = 0
      /\ LastCycle.stmt = ir.routines[CycleBefore.stmt.routine + 1][1]

\* The routine a machine runs.
current_routine(vm) ==
    vm.ir.routines[(IF vm.routine = <<>> THEN vm.ir.main ELSE Last(vm.routine)) + 1]
\* The statement index a Jmp at the program counter of vm is aimed at.
JmpTarget(vm, rel) == vm_pc(vm) + rel + 1

\* C20: a Jmp cycle at statement p with offset rel, p + rel + 1 being a
\* statement of the current routine (statement 0 included), does not abort,
\* leaves the top program counter at p + rel + 1 and changes nothing else.
C20_JmpTarget ==
    (hist # <<>> /\ LastCycle.stmt.op = "Jmp"
       /\ JmpTarget(Before(LastCycle), LastCycle.stmt.location)
            \in 0..(Len(current_routine(Before(LastCycle))) - 1)) =>
      /\ panic = "none"
      /\ vm_pc(TheVM) = JmpTarget(Before(LastCycle), LastCycle.stmt.location)
      /\ [TheVM EXCEPT !.pc = Front(@)]
           = [Before(LastCycle) EXCEPT !.pc = Front(@)]

\* The byte a conditional jump tests, taken from the machine it runs on.
TestedByte(vm, source) ==
    CASE source.k = "Literal" -> source.val
      [] source.k = "Register" -> vm.reg8[source.reg]
      [] OTHER -> Load(vm.static_, source.base.addr)
\* Whether a conditional jump of this kind is to jump on this byte.
Jumps(op, byte) == IF op = "JmpCmp" THEN byte # 0 ELSE byte = 0

CalleeReturnWrite == ir.routines[2][2]
CalleeStackWrite == ir.routines[2][3]
CallerStackWrite == ir.routines[1][1]

\* C22: the caller's read of a return address after Ret gives the byte the
\* callee wrote there before Ret; the caller's read of its frame gives what
\* the caller had written, not what the callee wrote to the same cell of its
\* own frame; Ret leaves the caller's frames as they lay under the callee's;
\* Call and Ret change neither static memory, return memory nor registers.
C22_ReturnSpace ==
    /\ (hist # <<>> /\ LastCycle.stmt.op \in {"Call", "Ret"}) =>
          /\ static_ = Before(LastCycle).static_
          /\ return_ = Before(LastCycle).return_
          /\ reg8 = Before(LastCycle).reg8
          /\ reg16 = Before(LastCycle).reg16
    /\ (hist # <<>> /\ LastCycle.stmt.op = "Ret") =>
          /\ panic = "none"
          /\ stack = Front(Before(LastCycle).stack)
    /\ (Len(hist) = 2 /\ CycleBefore.stmt.op = "Ret") =>
          /\ LastCycle.stmt.source = CalleeReturnWrite.destination
          /\ panic = "none"
          /\ reg8[0] = CalleeReturnWrite.source.val
          /\ reg8[0] = Load(Before(CycleBefore).return_, LastCycle.stmt.source.base.addr)
    /\ (~running /\ panic = "none") =>
          /\ reg8[1] = CallerStackWrite.source.val
          /\ reg8[1] # CalleeStackWrite.source.val
          /\ reg8[0] = CalleeReturnWrite.source.val

\* The run ended: the caller read 255 from the last return address and its
\* own 3 from cell 2 of its frame, which the callee had got a copy of.
C22_Witness ==
    /\ ~running
    /\ panic = "none"
    /\ reg8[0] = 255
    /\ reg8[1] = 3
    /\ Load(return_, MemSize - 1) = 255
    /\ ir.routines[1][2].range.end = FrameSize
    /\ CallerStackWrite.destination = Pointer("Stack", 2)
    /\ Len(stack) = 1

\* C23: in every state a read through Pointer Absolute(A) and a read through
\* Pointer Static(A) give the same result, 8-bit and 16-bit; a byte or a word
\* written through either is what the next statement reads through either.
C23_AbsoluteIsStatic ==
    /\ \A a \in AliasAddresses :
          /\ read(TheVM, Pointer("Absolute", a)) = read(TheVM, Pointer("Static", a))
          /\ read_u16(TheVM, Pointer("Absolute", a))
               = read_u16(TheVM, Pointer("Static", a))
    /\ (Len(hist) = 2 /\ CycleBefore.stmt.op = "Ld" /\ LastCycle.stmt.op = "Ld") =>
          /\ panic = "none"
          /\ reg8[0] = CycleBefore.stmt.source.val
    /\ (Len(hist) = 2 /\ CycleBefore.stmt.op = "LdW" /\ LastCycle.stmt.op = "LdW"
          /\ CycleBefore.stmt.destination.base.addr < MemSize - 1) =>
          /\ panic = "none"
          /\ reg16[1] = CycleBefore.stmt.source.val

\* A word written through Absolute at the last address it fits at was read
\* through Static, after a byte written through Absolute was.
C23_Witness ==
    /\ ~running
    /\ panic = "none"
    /\ ir.routines[1][3].destination = Pointer("Absolute", MemSize - 2)
    /\ ir.routines[1][4].source = Pointer("Static", MemSize - 2)
    /\ reg8[0] = 200
    /\ reg16[1] = 258

\* Whether a cycle ran Div or Rem with a right operand that read 0.
DividesByZero(cycle) ==
    /\ cycle.stmt.op \in {"Div", "Rem"}
    /\ read(Before(cycle), cycle.stmt.right) = Ok(0)

\* C24: a Div or Rem cycle whose right operand reads 0 aborts the machine
\* with the destination and every other part of the state as before, and no
\* cycle follows it; with any other divisor the quotient or the remainder is
\* written.
C24_DivisionFaults ==
    /\ (hist # <<>> /\ DividesByZero(LastCycle)) =>
          /\ panic # "none"
          /\ Unmarked = Before(LastCycle)
          /\ Written(FALSE) = Ok(9)
    /\ ~(Len(hist) = 2 /\ DividesByZero(CycleBefore))
    /\ (hist # <<>> /\ LastCycle.stmt.op \in {"Div", "Rem"}
          /\ ~DividesByZero(LastCycle)) =>
          /\ panic = "none"
          /\ LET l == LastCycle.stmt.left.val
                  r == read(Before(LastCycle), LastCycle.stmt.right).val
              IN  /\ r * (l \div r) + (l % r) = l
                  /\ Written(FALSE).val =
                       IF LastCycle.stmt.op = "Div" THEN l \div r ELSE l % r

\* Rem of 7 by a static cell that holds 0 aborted a release build, with the
\* 9 still in the destination register.
C24_Witness ==
    /\ hist # <<>>
    /\ LastCycle.stmt = Binary("Rem", Literal(7), Pointer("Static", 0), Register(0))
    /\ ~overflow_checks
    /\ panic = "divide by zero"
    /\ reg8[0] = 9
    /\ vm_pc(TheVM) = 1

\* The bytes of a space of a machine, by address: a memory array or the top
\* frame.
Bytes(vm, space) ==
    CASE space \in {"Static", "Absolute"} -> [a \in DOMAIN vm.static_ |-> vm.static_[a]]
      [] space = "Return" -> [a \in DOMAIN vm.return_ |-> vm.return_[a]]
      [] space = "Stack" -> [a \in 0..(FrameSize - 1) |-> Last(vm.stack)[a + 1]]
ByteAt(vm, space, a) == Load(Bytes(vm, space), a)
\* The word and the place of a word program.
WordWritten == ir.routines[1][1].source.val
WordPlace == ir.routines[1][1].destination

\* C25: LdW of a word v to a place A of a writable space, A + 1 in range,
\* changes the bytes at A and A + 1 and nothing else but the program counter;
\* the 16-bit read of A that follows gives v in either byte order; the 8-bit
\* reads of A and A + 1 give the high then the low byte of v in big-endian
\* order and the low then the high byte in little-endian order.
C25_WordRoundTrip ==
    /\ (Len(hist) = 1 /\ LastCycle.stmt.op = "LdW") =>
          LET before == Before(LastCycle)
              space == WordPlace.base.space
              a == WordPlace.base.addr
          IN  /\ panic = "none"
              /\ \A x \in (DOMAIN Bytes(TheVM, space) \cup DOMAIN Bytes(before, space))
                             \ {a, a + 1} :
                    ByteAt(TheVM, space, x) = ByteAt(before, space, x)
              /\ {ByteAt(TheVM, space, a), ByteAt(TheVM, space, a + 1)}
                   = {WordWritten \div 256, WordWritten % 256}
              /\ space # "Stack" => stack = before.stack
              /\ space \in {"Return", "Stack"} => static_ = before.static_
              /\ space # "Return" => return_ = before.return_
              /\ Front(stack) = Front(before.stack)
              /\ reg8 = before.reg8 /\ reg16 = before.reg16
              /\ running /\ routine = before.routine
    /\ (Len(hist) = 2 /\ CycleBefore.stmt.op = "LdW" /\ LastCycle.stmt.op = "LdW") =>
          /\ panic = "none"
          /\ reg16[0] = WordWritten
    /\ (~running /\ panic = "none") =>
          IF byte_order = "BE"
            THEN reg8[0] = WordWritten \div 256 /\ reg8[1] = WordWritten % 256
            ELSE reg8[0] = WordWritten % 256 /\ reg8[1] = WordWritten \div 256
    /\ panic = "none"

\* 0x0102 written big-endian to the last two cells of the top frame was read
\* back as a word, and as the bytes 1 and 2.
C25_Witness ==
    /\ ~running
    /\ byte_order = "BE"
    /\ WordWritten = 258
    /\ WordPlace = Pointer("Stack", FrameSize - 2)
    /\ reg16[0] = 258
    /\ reg8[0] = 1
    /\ reg8[1] = 2
    /\ panic = "none"

\* ------------------------------------------- claims on the cursors
Spaces == {"Absolute", "Const", "Static", "Stack"}
\* Whether the byte ranges of two symbols meet.
Overlap(p, q) ==
    /\ p.size > 0 /\ q.size > 0
    /\ p.offset < q.offset + q.size
    /\ q.offset < p.offset + p.size
\* Where the symbols of a field begin: the least offset among them.
Begins(symbols, offset) ==
    /\ \E i \in DOMAIN symbols : symbols[i].offset = offset
    /\ \A i \in DOMAIN symbols : symbols[i].offset >= offset

\* C26: alloc_const, alloc_static and alloc_stack_field place the field at
\* the cursor of their space, advance that cursor by the field's size and no
\* other, append symbols to the table of that space and to no other, and no
\* symbol they append overlaps a symbol of an earlier call in that space;
\* alloc_absolute places the field at the offset given and moves no cursor;
\* no call makes a cursor smaller but clear_stack the stack cursor.
C26_Cursors ==
    /\ Allocated_ =>
          /\ Kept
          /\ Added # <<>>
          /\ \A i \in DOMAIN Added : Added[i].space = sym_last.space
          /\ \A sp \in Spaces \ {sym_last.space} :
                /\ Table(symbol_alloc, sp) = Table(sym_last.before, sp)
                /\ Cursor(symbol_alloc, sp) = Cursor(sym_last.before, sp)
          /\ IF sym_last.op = "alloc_absolute"
                THEN /\ Begins(Added, sym_last.offset)
                     /\ Advance = 0
                ELSE /\ Begins(Added, Cursor(sym_last.before, sym_last.space))
                     /\ Advance = size_of(sym_last.field.type_)
                     /\ \A i \in DOMAIN Added :
                          \A j \in DOMAIN Table(sym_last.before, sym_last.space) :
                            ~Overlap(Added[i], Table(sym_last.before, sym_last.space)[j])
    /\ sym_last.op # "new" =>
          \A sp \in Spaces :
            \/ Cursor(symbol_alloc, sp) >= Cursor(sym_last.before, sp)
            \/ sym_last.op = "clear_stack" /\ sp = "Stack"

\* ------------------------------------------------------ claims on FnAlloc
\* C17: alloc of a declaration whose name is bound aborts, and otherwise binds
\* the name to it and leaves every other binding; get of a bound name returns
\* the one declaration alloc accepted under that name, and get of an unbound
\* name aborts.
C17_FnAlloc ==
    /\ fn_last.op = "alloc" =>
          IF fn_last.name \in DOMAIN fn_last.before
            THEN fn_panic # "none"
            ELSE /\ fn_panic = "none"
                 /\ DOMAIN fns = DOMAIN fn_last.before \cup {fn_last.name}
                 /\ fns[fn_last.name] = fn_last.fn_
                 /\ \A n \in DOMAIN fn_last.before : fns[n] = fn_last.before[n]
    /\ fn_last.op = "get" =>
          IF \E d \in fn_allocated : d.ident = fn_last.name
            THEN /\ fn_panic = "none"
                 /\ fn_last.val \in fn_allocated
                 /\ fn_last.val.ident = fn_last.name
            ELSE fn_panic # "none"
    /\ \A d, e \in fn_allocated : d.ident = e.ident => d = e

\* A second declaration of f was refused while f and g were bound.
C17_Witness ==
    /\ fn_last.op = "alloc"
    /\ fn_last.fn_ = Fn("f", "second")
    /\ fn_allocated = {Fn("f", "first"), Fn("g", "second")}
    /\ fn_panic = "assert"

=============================================================================
